---- MODULE Spec2Model ----
(***************************************************************************)
(* Model of scrapouille's asynchronous batch orchestrator                  *)
(* (src/scraper/batch.py) together with the collaborators it drives: the   *)
(* result cache (src/scraper/cache.py), the rate limiter                   *)
(* (src/scraper/ratelimit.py), the metrics table (src/scraper/metrics.py)  *)
(* and the schema validator (src/scraper/models.py).                       *)
(*                                                                         *)
(* One AsyncBatchProcessor is constructed (Init) and process_batch is then *)
(* called with a list of urls, a prompt and a schema_name; where the cache *)
(* is in use the caller may submit the same batch again, up to MaxCalls    *)
(* calls in all.  Every step of the model is one uninterrupted run of the  *)
(* asyncio event loop up to the next suspension point of a pipeline, or    *)
(* the return of a call that run_in_executor handed to a worker thread.    *)
(*                                                                         *)
(* Python indices are 0-based: item i of the model (1..Len(urls)) carries  *)
(* BatchResult.index = i - 1.  Wall-clock time is not represented:         *)
(* execution_time and timestamp are left out of BatchResult, and a         *)
(* per-item deadline is the Timeout event, which can happen exactly while  *)
(* the pipeline awaits a call that outlasts timeout_per_url.               *)
(***************************************************************************)
EXTENDS Integers, Sequences, FiniteSets, TLC

\* ---------------------------------------------------------------- bounds
MaxUrls == 2
MaxConcurrent == 2
MaxCalls == 2
MaxChain == 2
MaxExecCalls == 2
MaxWaiters == 2
MaxClock == 3
MaxCacheCalls == 2
MaxSerialCalls == 3
MaxRows == 2
MaxDays == 2
MaxTasks == 2
MaxTime == 5

\* ------------------------------------------------------------ vocabulary
None == "None"
URLS == {"u1", "u2"}
prompt == "p"

\* names of the ModelConfig entries handed to the constructor
fallback_chain == <<"A", "B">>

\* what the external extractor does for one item when it is run
ExtractorBehaviours == {"ok", "none", "throw", "hang"}

\* payloads
RawData == "raw"
NormalizedData == "normalized"

\* error texts
TimeoutMessage == "Timeout after <timeout_per_url>s"
ArityMessage == "ModelFallbackExecutor.execute_with_fallback() takes 4 positional arguments but 5 were given"
ExtractorMessage == "Scraping failed"

VARIABLES
    config,         \* BatchConfig of the processor
    graph_config,   \* graph_config["llm"]["model"] of the processor
    cache_enabled,  \* ScraperCache.enabled after construction
    urls,           \* the urls argument of process_batch
    schema_name,    \* the schema_name argument of process_batch
    repeat,         \* the caller submits the same batch again
    phase,          \* "idle" | "running" | "returned" | "raised"
    call,           \* number of process_batch calls started
    pc,             \* per item: where its pipeline task stands
    result,         \* per item: the BatchResult its task holds
    raised,         \* per item: exception escaping its task, or None
    gather_exception, \* exception set on the future of gather(*tasks)
    timed_out,      \* per item: wait_for raised TimeoutError
    ext,            \* per item: behaviour of the extractor for it
    semaphore,      \* free slots of asyncio.Semaphore(max_concurrent)
    threads,        \* calls running in executor worker threads
    cache_store,    \* the key/value store behind ScraperCache
    rate_limiter,   \* RateLimiter.request_count / last_request_time
    log,            \* metrics rows and progress callbacks of this call
    results,        \* what process_batch returned (or <<>>)
    prev_success,   \* success flags of the previous call's results
    executor,       \* a ModelFallbackExecutor used on its own: its fields
    execution,      \* the frame of its execute_with_fallback call
    clock,          \* datetime.now(), in ticks
    limiter,        \* a RateLimiter shared by threads: its fields
    waiters,        \* per thread: the frame of its RateLimiter.wait call
    returns,        \* the times at which wait() returned, in order
    cache,          \* a ScraperCache used on its own: its fields
    redis,          \* the keys and values held by the Redis server
    cache_calls,    \* the calls made on the cache, with what they gave
    response,       \* the BatchScrapeResponse of the batch endpoint
    scrapes,        \* a MetricsDB used on its own: the rows of its table
    stats,          \* what its last get_stats call returned
    retrying,       \* the frame of a scrape_with_retry call
    timed,          \* a batch with a clock: time, free slots, task frames
    pipeline,       \* one _scrape_single call, statement by statement
    stealth         \* graph_config as dict objects, and each pipeline's copy

vars == <<config, graph_config, cache_enabled, urls, schema_name, repeat,
          phase, call, pc, result, raised, gather_exception, timed_out, ext, semaphore, threads, cache_store,
          rate_limiter, log, results, prev_success, executor, execution,
          clock, limiter, waiters, returns, cache, redis, cache_calls,
          response, scrapes, stats, retrying, timed, pipeline, stealth>>

Items == 1..Len(urls)

\* ------------------------------------------------------------ BatchResult
\* BatchResult built with the 1-based position handed to the callback
BatchResult_position(url, index) ==
    [url |-> url, index |-> index + 1, success |-> FALSE, data |-> None,
     error |-> None, model_used |-> None, fallback_attempts |-> 0,
     cached |-> FALSE, validation_passed |-> None]

BatchResult(url, index) ==
    [url |-> url, index |-> index, success |-> FALSE, data |-> None,
     error |-> None, model_used |-> None, fallback_attempts |-> 0,
     cached |-> FALSE, validation_passed |-> None]

\* the BatchResult built by the except branch of _scrape_with_semaphore
TimeoutResult(url, index) ==
    [BatchResult(url, index) EXCEPT !.error = TimeoutMessage]

\* the BatchResult process_batch builds for a task that raised
ExceptionResult(url, index, message) ==
    [BatchResult(url, index) EXCEPT !.error = message]

\* ---------------------------------------------------------- ScraperCache
\* json.dumps / json.loads of a payload
json_dumps(data) == <<"json", data>>
json_loads(text) == text[2]

\* _make_key: the sha256 of the sorted-key serialisation of url, prompt and
\* the keyword parameters, taken to be collision free
make_key(url, prmpt, model, schema) ==
    [url |-> url, prompt |-> prmpt, model |-> model, schema |-> schema]

\* Python truthiness of a payload: None and {} are falsy
Truthy(data) == data # None

\* ScraperCache.get
cache_get(url, prmpt, model, schema) ==
    IF ~cache_enabled
    THEN None
    ELSE LET key == make_key(url, prmpt, model, schema)
         IN IF key \in DOMAIN cache_store
            THEN json_loads(cache_store[key])
            ELSE None

\* ScraperCache.set: the store after the call
cache_set(url, prmpt, data, model, schema) ==
    IF ~cache_enabled
    THEN cache_store
    ELSE LET key == make_key(url, prmpt, model, schema)
         IN [k \in DOMAIN cache_store \cup {key} |->
                IF k = key THEN json_dumps(data) ELSE cache_store[k]]

\* schema_name or 'none'
SchemaKey == IF schema_name = None THEN "none" ELSE schema_name

\* the 'model' part of the lookup key: the primary model of the chain
LookupModel == IF Len(fallback_chain) > 0 THEN fallback_chain[1] ELSE "unknown"

\* ----------------------------------------------------------- validate_data
SCHEMAS == {"none", "product", "article", "job", "research_paper", "contact"}

\* validate_data; accepted is the schema class's verdict on a payload that
\* is a dict (schema_class(**None) raises and is caught)
validate_data(data, schema, accepted) ==
    IF schema = "none" \/ schema \notin SCHEMAS
    THEN [is_valid |-> TRUE, data |-> data]
    ELSE IF data # None /\ accepted
         THEN [is_valid |-> TRUE, data |-> NormalizedData]
         ELSE [is_valid |-> FALSE, data |-> None]

\* ----------------------------------------------- metrics and progress log
MetricEvent(r) ==
    [kind |-> "metric", index |-> r.index, url |-> r.url, done |-> 0,
     total |-> 0, cached |-> r.cached,
     error |-> IF r.error = None THEN "" ELSE r.error,
     model |-> IF r.model_used = None THEN "unknown" ELSE r.model_used]

ProgressEvent(r) ==
    [kind |-> "progress", index |-> r.index, url |-> r.url,
     done |-> r.index + 1, total |-> Len(urls), cached |-> r.cached,
     error |-> "", model |-> ""]

\* log_scrape moved from the finally block to the end of the try body
Finally_success_only(lg, r) ==
    IF r.success THEN lg \o <<MetricEvent(r), ProgressEvent(r)>>
                 ELSE lg \o <<ProgressEvent(r)>>

\* the finally block of _scrape_single: log_scrape, then progress_callback
Finally(lg, r) == lg \o <<MetricEvent(r), ProgressEvent(r)>>

\* --------------------------------------------------------------- sorting
RECURSIVE Insert(_, _)
Insert(r, s) ==
    IF s = <<>> THEN <<r>>
    ELSE IF r.index < Head(s).index
         THEN <<r>> \o s
         ELSE <<Head(s)>> \o Insert(r, Tail(s))

\* list.sort(key=lambda r: r.index), a stable sort
RECURSIVE SortByIndex(_)
SortByIndex(s) ==
    IF s = <<>> THEN <<>>
    ELSE Insert(s[Len(s)], SortByIndex(SubSeq(s, 1, Len(s) - 1)))

\* ------------------------------------------------------------------ Init
RECURSIVE SeqsOfLen(_, _)
SeqsOfLen(S, n) ==
    IF n = 0 THEN {<<>>}
    ELSE {Append(s, x) : s \in SeqsOfLen(S, n - 1), x \in S}

\* the batches: every list of at most MaxUrls urls, up to the renaming of
\* the urls (a non-empty list starts with "u1")
UrlLists ==
    {s \in UNION {SeqsOfLen(URLS, n) : n \in 0..MaxUrls} :
        s = <<>> \/ s[1] = "u1"}

Configs ==
    [max_concurrent : 1..MaxConcurrent, continue_on_error : BOOLEAN,
     use_cache : BOOLEAN, use_rate_limiting : BOOLEAN,
     use_fallback : BOOLEAN, validate_results : BOOLEAN]

\* Settings that no step tells apart are enumerated once: a switched-off
\* cache is the enabled cache of a processor with use_cache=False, and
\* validate_results is only varied when a schema_name is given.
Distinct(cfg, enabled) == cfg.use_cache \/ enabled

\* no ModelFallbackExecutor is in use on its own during a batch
NoExecutor == [fallback_chain |-> <<>>, last_successful_model |-> None]
NoException == [type |-> "None", text |-> "", names |-> {}]
NoValue == [result |-> None, model_used |-> None, attempts |-> 0]
NoExecution == [pc |-> "idle", calls |-> 0, attempt |-> 0,
                last_exception |-> NoException, invoked |-> <<>>,
                value |-> NoValue, error |-> NoException, before |-> None]

\* the timing of RateLimiter.wait is looked at on its own: during a batch
\* the limiter is the rate_limiter variable, without a clock
Timing == <<clock, limiter, waiters, returns>>
NoTiming ==
    /\ clock = 0
    /\ limiter = [last_request_time |-> <<>>, request_count |-> 0]
    /\ waiters = <<>>
    /\ returns = <<>>

\* the ScraperCache of a batch is the cache_enabled and cache_store
\* variables; no other cache object is constructed during a batch
Caching == <<cache, redis, cache_calls>>
NoCaching ==
    /\ cache = [enabled |-> FALSE, client |-> None]
    /\ redis = <<>>
    /\ cache_calls = <<>>

\* no request has been answered by the batch endpoint
NoResponse == [success |-> FALSE, results |-> <<>>, summary |-> <<>>,
               error |-> "no response"]

\* the metrics table of a batch is the log variable; no other MetricsDB is
\* written or read during a batch
Metrics == <<scrapes, stats>>
NoStats == [total_scrapes |-> 0, avg_time |-> <<>>, cache_hits |-> <<>>,
            errors |-> <<>>, validation_failures |-> <<>>,
            cache_hit_rate |-> 0, error_rate |-> 0, days |-> 0]
NoMetrics ==
    /\ scrapes = <<>>
    /\ stats = NoStats

\* scrape_with_retry is not used by the batch processor
NoRetrying == [pc |-> "idle", attempt_number |-> 0, outcomes |-> <<>>,
               value |-> None, error |-> None]

\* the deadlines of wait_for are looked at on their own, with a clock: during
\* a batch a deadline is the Timeout step
NoTimed == [pc |-> "idle", now |-> 0, value |-> 0,
            use_rate_limiting |-> FALSE, tasks |-> <<>>]

\* the stages of one pipeline are looked at on their own, statement by
\* statement: during a batch a pipeline moves from one suspension point to
\* the next
NoSettings == [use_cache |-> FALSE, enabled |-> FALSE, stored |-> FALSE,
               use_rate_limiting |-> FALSE, use_fallback |-> FALSE,
               checked |-> FALSE]
NoPipeline == [pc |-> "idle", settings |-> NoSettings, stages |-> <<>>,
               failed_at |-> None, success |-> FALSE, error |-> None,
               data |-> None, cached |-> FALSE, timed_out |-> FALSE,
               rate_limiter |-> [request_count |-> 0,
                                 last_request_time |-> None]]

\* the dict objects behind graph_config are looked at on their own: during
\* a batch graph_config is the model name it holds
NoStealth == [use_stealth |-> FALSE, heap |-> <<>>,
              graph_config |-> [loader_kwargs |-> <<>>],
              original |-> <<>>, scraping_config |-> <<>>,
              chosen |-> <<>>, pc |-> <<>>]

\* the components that are also exercised on their own, outside a batch
BesidesFallback == <<Timing, Caching, Metrics, retrying, timed, pipeline, stealth>>
BesidesLimiter == <<executor, execution, Caching, Metrics, retrying, timed,
                    pipeline, stealth>>
BesidesCache == <<executor, execution, Timing, Metrics, retrying, timed,
                  pipeline, stealth>>
BesidesMetrics == <<executor, execution, limiter, waiters, returns, Caching,
                    retrying, timed, pipeline, stealth>>
BesidesRetry == <<executor, execution, Timing, Caching, Metrics, timed,
                  pipeline, stealth>>
BesidesDeadline == <<executor, execution, Timing, Caching, Metrics,
                     retrying, pipeline, stealth>>
BesidesPipeline == <<executor, execution, Timing, Caching, Metrics,
                     retrying, timed, stealth>>
BesidesStealth == <<executor, execution, Timing, Caching, Metrics,
                    retrying, timed, pipeline>>

Init ==
    /\ config \in Configs
    /\ graph_config \in {[llm_model |-> fallback_chain[1]],
                         [llm_model |-> "ollama/A"]}
    /\ cache_enabled \in BOOLEAN
    /\ Distinct(config, cache_enabled)
    /\ urls \in UrlLists
    /\ schema_name \in {None, "product"}
    /\ schema_name = None => config.validate_results
    /\ repeat \in BOOLEAN
    /\ repeat => config.use_cache /\ cache_enabled /\ urls # <<>>
    /\ phase = "idle"
    /\ call = 0
    /\ pc = <<>>
    /\ result = <<>>
    /\ raised = <<>>
    /\ gather_exception = None
    /\ timed_out = <<>>
    /\ ext = <<>>
    /\ semaphore = config.max_concurrent
    /\ threads = {}
    /\ cache_store = <<>>
    /\ rate_limiter = [request_count |-> 0, last_request_time |-> None]
    /\ log = <<>>
    /\ results = <<>>
    /\ prev_success = <<>>
    /\ executor = NoExecutor
    /\ execution = NoExecution
    /\ NoTiming
    /\ NoCaching
    /\ NoMetrics
    /\ retrying = NoRetrying
    /\ timed = NoTimed
    /\ pipeline = NoPipeline
    /\ stealth = NoStealth
    /\ response = NoResponse

\* what no step of a batch changes: the processor's settings, the arguments
\* of process_batch, and a ModelFallbackExecutor constructed elsewhere
Inputs == <<config, graph_config, cache_enabled, urls, schema_name, repeat,
            executor, execution, Timing, Caching, response, Metrics,
            retrying, timed, pipeline, stealth>>

\* ------------------------------------------------------------- executor
\* a call handed to run_in_executor: rate_limiter.wait ("wait"),
\* executor.execute_with_fallback ("fallback") or graph.run ("run")
Thread(i, kind) == [call |-> call, index |-> i, kind |-> kind]

\* the pipeline that submitted the call is still awaiting it
Awaited(t) ==
    /\ phase = "running"
    /\ t.call = call
    /\ pc[t.index] \in {"rl_wait", "extracting"}

\* RateLimiter.wait: the limiter after the call has returned
wait(rl) ==
    [request_count |-> rl.request_count + 1, last_request_time |-> "set"]

\* ----------------------------------------------------------- process_batch
\* process_batch up to the creation of the tasks (urls non-empty)
ProcessBatch ==
    /\ \/ phase = "idle"
       \/ phase = "returned" /\ repeat /\ call < MaxCalls
    /\ urls # <<>>
    /\ phase' = "running"
    /\ call' = call + 1
    /\ pc' = [i \in Items |-> "queued"]
    /\ result' = [i \in Items |-> BatchResult(urls[i], i - 1)]
    /\ raised' = [i \in Items |-> None]
    /\ gather_exception' = None
    /\ timed_out' = [i \in Items |-> FALSE]
    /\ ext' = [i \in Items |-> "unset"]
    /\ log' = <<>>
    /\ results' = <<>>
    /\ prev_success' = [i \in 1..Len(results) |-> results[i].success]
    /\ UNCHANGED <<Inputs, semaphore, threads, cache_store, rate_limiter>>

\* an empty urls list gives an empty list of results
ProcessBatchEmpty_returns ==
    /\ phase = "idle"
    /\ urls = <<>>
    /\ phase' = "returned"
    /\ call' = call + 1
    /\ UNCHANGED <<Inputs, pc, result, raised, gather_exception, timed_out, ext, semaphore,
                   threads, cache_store, rate_limiter, log, results,
                   prev_success>>

\* process_batch with an empty urls list: ValueError
ProcessBatchEmpty ==
    /\ phase = "idle"
    /\ urls = <<>>
    /\ phase' = "raised"
    /\ call' = call + 1
    /\ UNCHANGED <<Inputs, pc, result, raised, gather_exception, timed_out, ext, semaphore,
                   threads, cache_store, rate_limiter, log, results,
                   prev_success>>

\* a semaphore that never blocks
locked_never(value) == FALSE

\* asyncio.Semaphore.locked
locked(value) == value = 0

\* Step 2.5 and Step 3 of _scrape_single: the extraction is handed to a
\* worker thread; e is what the extractor does for this item
SubmitExtraction(i, e, running) ==
    /\ pc' = [pc EXCEPT ![i] = "extracting"]
    /\ ext' = [ext EXCEPT ![i] = e]
    /\ threads' = running \cup
           {Thread(i, IF config.use_fallback THEN "fallback" ELSE "run")}

\* a cache hit that leaves success at its default
CacheHit_not_successful(r, cached_data) ==
    [r EXCEPT !.data = cached_data, !.cached = TRUE,
              !.model_used = LookupModel]

\* the result of a cache hit (Step 1 of _scrape_single)
CacheHit(r, cached_data) ==
    [r EXCEPT !.success = TRUE, !.data = cached_data, !.cached = TRUE,
              !.model_used = LookupModel]

\* "async with self.semaphore" is entered and _scrape_single runs from its
\* first line to its first suspension point, or to its end on a cache hit.
\* The tasks reach the semaphore in list order and its waiters are woken
\* first come, first served.
ScrapeWithSemaphore(i) ==
    /\ phase = "running"
    /\ pc[i] = "queued"
    /\ \A j \in 1..(i - 1) : pc[j] # "queued"
    /\ ~locked(semaphore)
    /\ LET cached_data ==
               IF config.use_cache /\ cache_enabled
               THEN cache_get(urls[i], prompt, LookupModel, SchemaKey)
               ELSE None
       IN IF Truthy(cached_data)
          THEN LET r == CacheHit(result[i], cached_data)
               IN /\ result' = [result EXCEPT ![i] = r]
                  /\ log' = Finally(Append(log, ProgressEvent(r)), r)
                  /\ pc' = [pc EXCEPT ![i] = "done"]
                  /\ UNCHANGED <<ext, threads, semaphore>>
          ELSE /\ semaphore' = semaphore - 1
               /\ IF config.use_rate_limiting
                  THEN /\ pc' = [pc EXCEPT ![i] = "rl_wait"]
                       /\ threads' = threads \cup {Thread(i, "wait")}
                       /\ UNCHANGED <<result, log, ext>>
                  ELSE /\ \E e \in ExtractorBehaviours :
                              SubmitExtraction(i, e, threads)
                       /\ UNCHANGED <<result, log>>
    /\ UNCHANGED <<Inputs, phase, call, raised, gather_exception, timed_out, cache_store,
                   rate_limiter, results, prev_success>>

\* rate_limiter.wait returned in its thread and the pipeline resumes
LimiterReturn(i) ==
    /\ phase = "running"
    /\ pc[i] = "rl_wait"
    /\ rate_limiter' = wait(rate_limiter)
    /\ \E e \in ExtractorBehaviours :
           SubmitExtraction(i, e, threads \ {Thread(i, "wait")})
    /\ UNCHANGED <<Inputs, phase, call, result, raised, gather_exception, timed_out, semaphore,
                   cache_store, log, results, prev_success>>

\* the except Exception branch of _scrape_single
Failed(r, message) == [r EXCEPT !.success = FALSE, !.error = message]

\* a payload that the schema rejects fails the item
Extracted_invalid_fails(r, scrape_result, accepted) ==
    LET r3 == [r EXCEPT !.data = scrape_result,
                        !.model_used = graph_config.llm_model,
                        !.fallback_attempts = 1]
        checked == schema_name # None /\ config.validate_results
        v == validate_data(r3.data, schema_name, accepted)
    IN IF checked /\ ~v.is_valid
       THEN [r3 EXCEPT !.validation_passed = "False", !.data = None,
                       !.error = "Validation failed"]
       ELSE [r3 EXCEPT !.validation_passed =
                           IF checked THEN "True" ELSE @,
                       !.data = IF checked THEN v.data ELSE @,
                       !.success = TRUE]

\* Steps 3 to 5 of _scrape_single after graph.run returned scrape_result;
\* accepted is the schema's verdict on the payload
Extracted(r, scrape_result, accepted) ==
    LET r3 == [r EXCEPT !.data = scrape_result,
                        !.model_used = graph_config.llm_model,
                        !.fallback_attempts = 1]
        checked == schema_name # None /\ config.validate_results
        v == validate_data(r3.data, schema_name, accepted)
        r4 == IF checked
              THEN [r3 EXCEPT !.validation_passed =
                                  IF v.is_valid THEN "True" ELSE "False",
                              !.data = IF v.is_valid THEN v.data ELSE @]
              ELSE r3
    IN [r4 EXCEPT !.success = TRUE]

\* Step 5 without the test of result.data
CacheWrite_any_payload(r) ==
    IF config.use_cache /\ cache_enabled
    THEN cache_set(r.url, prompt, r.data, r.model_used, SchemaKey)
    ELSE cache_store

\* Step 5: the cache after the write of a successful result
CacheWrite(r) ==
    IF config.use_cache /\ cache_enabled /\ Truthy(r.data)
    THEN cache_set(r.url, prompt, r.data, r.model_used, SchemaKey)
    ELSE cache_store

\* Steps 3 to 5 of _scrape_single from the return of the awaited call: the
\* result, the worker threads and the cache after them
Extraction(i) ==
    /\ IF config.use_fallback
       THEN \* four positional arguments reach execute_with_fallback, which
            \* takes three besides self: TypeError before any model is tried
            /\ threads' = threads \ {Thread(i, "fallback")}
            /\ result' = [result EXCEPT ![i] = Failed(@, ArityMessage)]
            /\ UNCHANGED cache_store
       ELSE /\ ext[i] # "hang"
            /\ threads' = threads \ {Thread(i, "run")}
            /\ IF ext[i] = "throw"
               THEN /\ result' = [result EXCEPT
                                     ![i] = Failed(@, ExtractorMessage)]
                    /\ UNCHANGED cache_store
               ELSE \E accepted \in BOOLEAN :
                       LET r == Extracted(result[i],
                                          IF ext[i] = "ok" THEN RawData
                                                           ELSE None,
                                          accepted)
                       IN /\ result' = [result EXCEPT ![i] = r]
                          /\ cache_store' = CacheWrite(r)

\* the call awaited by the pipeline returned or raised in its thread;
\* _scrape_single runs from there to its end, _scrape_with_semaphore
\* returns its result and the slot is released
ExecutorReturn(i) ==
    /\ phase = "running"
    /\ pc[i] = "extracting"
    /\ Extraction(i)
    /\ log' = Finally(log, result'[i])
    /\ pc' = [pc EXCEPT ![i] = "done"]
    /\ semaphore' = semaphore + 1
    /\ UNCHANGED <<Inputs, phase, call, raised, gather_exception, timed_out, ext,
                   rate_limiter, results, prev_success>>

\* no deadline is applied to the awaited call
Outlasts_never(i) == FALSE

\* the awaited call outlasts the deadline
Outlasts(i) ==
    \/ pc[i] = "rl_wait"
    \/ pc[i] = "extracting" /\ ~config.use_fallback /\ ext[i] = "hang"

\* one deadline for the whole batch: when it expires every pipeline that has
\* not ended is cancelled
Timeout_batch(i) ==
    /\ phase = "running"
    /\ Outlasts(i)
    /\ LET open == {j \in Items : pc[j] # "done"}
           held == {j \in Items : pc[j] \in {"rl_wait", "extracting"}}
       IN /\ timed_out' = [j \in Items |-> timed_out[j] \/ j \in open]
          /\ result' = [j \in Items |->
                            IF j \in open
                            THEN TimeoutResult(result[j].url, result[j].index)
                            ELSE result[j]]
          /\ pc' = [j \in Items |-> "done"]
          /\ semaphore' = semaphore + Cardinality(held)
    /\ log' = Finally(log, result[i])
    /\ UNCHANGED <<Inputs, phase, call, raised, gather_exception, ext, threads, cache_store,
                   rate_limiter, results, prev_success>>

\* timeout_per_url expires: wait_for cancels _scrape_single, whose finally
\* block runs on the CancelledError while the worker thread keeps running;
\* _scrape_with_semaphore returns the timeout result and releases the slot
Timeout(i) ==
    /\ phase = "running"
    /\ Outlasts(i)
    /\ timed_out' = [timed_out EXCEPT ![i] = TRUE]
    /\ log' = Finally(log, result[i])
    /\ result' = [result EXCEPT ![i] = TimeoutResult(@.url, @.index)]
    /\ pc' = [pc EXCEPT ![i] = "done"]
    /\ semaphore' = semaphore + 1
    /\ UNCHANGED <<Inputs, phase, call, raised, gather_exception, ext, threads, cache_store,
                   rate_limiter, results, prev_success>>

\* a call whose pipeline was cancelled comes to its end in its thread
AbandonedReturn(t) ==
    /\ t \in threads
    /\ ~Awaited(t)
    /\ threads' = threads \ {t}
    /\ rate_limiter' = IF t.kind = "wait" THEN wait(rate_limiter)
                                          ELSE rate_limiter
    /\ UNCHANGED <<Inputs, phase, call, pc, result, raised, gather_exception, timed_out, ext,
                   semaphore, cache_store, log, results, prev_success>>

\* asyncio.gather(*tasks, return_exceptions=True) and the conversion of
\* exceptions to failed BatchResults
Gathered ==
    [i \in Items |-> IF raised[i] # None
                     THEN ExceptionResult(urls[i], i - 1, raised[i])
                     ELSE result[i]]

\* process_batch from the join of the tasks to its return
ProcessBatchReturn ==
    /\ phase = "running"
    /\ \A i \in Items : pc[i] = "done"
    /\ IF config.continue_on_error \/ \A i \in Items : raised[i] = None
       THEN /\ results' = SortByIndex(Gathered)
            /\ phase' = "returned"
       ELSE /\ results' = <<>>
            /\ phase' = "raised"
    /\ UNCHANGED <<Inputs, call, pc, result, raised, gather_exception, timed_out, ext,
                   semaphore, threads, cache_store, rate_limiter, log,
                   prev_success>>

Next ==
    \/ ProcessBatch
    \/ ProcessBatchEmpty
    \/ \E i \in Items : ScrapeWithSemaphore(i)
    \/ \E i \in Items : LimiterReturn(i)
    \/ \E i \in Items : ExecutorReturn(i)
    \/ \E i \in Items : Timeout(i)
    \/ \E t \in threads : AbandonedReturn(t)
    \/ ProcessBatchReturn

Spec == Init /\ [][Next]_vars

\* What the event loop, the timers of wait_for and the worker threads do
\* on their own.  Not among them: the caller calling process_batch, and the
\* end of a call nobody awaits any more (a hung extractor may never return).
Progress ==
    \/ \E i \in Items : ScrapeWithSemaphore(i)
    \/ \E i \in Items : LimiterReturn(i)
    \/ \E i \in Items : ExecutorReturn(i)
    \/ \E i \in Items : Timeout(i)
    \/ ProcessBatchReturn

\* The event loop runs a ready task, a call that is not hung returns and an
\* expired deadline fires: while one of these can happen, one does.
SpecLive == Spec /\ WF_vars(Progress)

\* ------------------------------------------- failing sink and callback
\* MetricsDB.log_scrape has no exception handler of its own and the finally
\* block of _scrape_single has none around it; the progress callback is the
\* caller's code.  Either can raise, with any text, the empty one included.
FaultMessages == {"database is locked", ""}

\* the log after a finally block in which log_scrape ("sink") or the
\* progress callback ("callback") raised
FinallyRaises(lg, r, where) ==
    IF where = "sink" THEN lg
                      ELSE lg \o <<MetricEvent(r), ProgressEvent(r)>>

\* gather called with return_exceptions=True whatever the configuration
Escape_collected(i, message) ==
    /\ raised' = [raised EXCEPT ![i] = message]
    /\ UNCHANGED gather_exception

\* an exception leaves the task of item i; without return_exceptions the
\* first one is set on the future of gather
Escape(i, message) ==
    /\ raised' = [raised EXCEPT ![i] = message]
    /\ gather_exception' =
           IF ~config.continue_on_error /\ gather_exception = None
           THEN message ELSE gather_exception

\* as ExecutorReturn, with a finally block that raises
ExecutorReturnRaises(i) ==
    /\ phase = "running"
    /\ pc[i] = "extracting"
    /\ Extraction(i)
    /\ \E where \in {"sink", "callback"}, message \in FaultMessages :
          /\ log' = FinallyRaises(log, result'[i], where)
          /\ Escape(i, message)
    /\ pc' = [pc EXCEPT ![i] = "done"]
    /\ semaphore' = semaphore + 1
    /\ UNCHANGED <<Inputs, phase, call, timed_out, ext, rate_limiter,
                   results, prev_success>>

\* as Timeout, with a finally block that raises while _scrape_single is
\* being cancelled: its exception takes the place of the CancelledError and
\* wait_for lets it through instead of raising TimeoutError
TimeoutRaises(i) ==
    /\ phase = "running"
    /\ Outlasts(i)
    /\ \E where \in {"sink", "callback"}, message \in FaultMessages :
          /\ log' = FinallyRaises(log, result[i], where)
          /\ Escape(i, message)
    /\ pc' = [pc EXCEPT ![i] = "done"]
    /\ semaphore' = semaphore + 1
    /\ UNCHANGED <<Inputs, phase, call, result, timed_out, ext, threads,
                   cache_store, rate_limiter, results, prev_success>>

\* as the cache hit of ScrapeWithSemaphore, with a progress callback that
\* raises at its first invocation (caught by except Exception) and / or a
\* finally block that raises
CacheHitRaises(i) ==
    /\ phase = "running"
    /\ pc[i] = "queued"
    /\ \A j \in 1..(i - 1) : pc[j] # "queued"
    /\ ~locked(semaphore)
    /\ config.use_cache /\ cache_enabled
    /\ LET cached_data == cache_get(urls[i], prompt, LookupModel, SchemaKey)
       IN /\ Truthy(cached_data)
          /\ \E first \in BOOLEAN, where \in {"none", "sink", "callback"},
                message \in FaultMessages :
                LET hit == CacheHit(result[i], cached_data)
                    r == IF first THEN Failed(hit, message) ELSE hit
                    lg == Append(log, ProgressEvent(hit))
                IN /\ first \/ where # "none"
                   /\ result' = [result EXCEPT ![i] = r]
                   /\ IF where = "none"
                      THEN /\ log' = Finally(lg, r)
                           /\ UNCHANGED <<raised, gather_exception>>
                      ELSE /\ log' = FinallyRaises(lg, r, where)
                           /\ Escape(i, message)
    /\ pc' = [pc EXCEPT ![i] = "done"]
    /\ UNCHANGED <<Inputs, phase, call, timed_out, ext, semaphore, threads,
                   cache_store, rate_limiter, results, prev_success>>

\* gather(*tasks) without return_exceptions: process_batch raises the first
\* exception that left a task, without waiting for the other tasks
ProcessBatchRaise ==
    /\ phase = "running"
    /\ gather_exception # None
    /\ phase' = "raised"
    /\ results' = <<>>
    /\ UNCHANGED <<Inputs, call, pc, result, raised, gather_exception,
                   timed_out, ext, semaphore, threads, cache_store,
                   rate_limiter, log, prev_success>>

\* one call of process_batch on a processor whose sink and callback can fail
InitFaults == Init /\ ~repeat

NextFaults ==
    \/ Next
    \/ \E i \in Items : ExecutorReturnRaises(i)
    \/ \E i \in Items : TimeoutRaises(i)
    \/ \E i \in Items : CacheHitRaises(i)
    \/ ProcessBatchRaise

SpecFaults == InitFaults /\ [][NextFaults]_vars

\* ------------------------------------------------- ModelFallbackExecutor
\* ModelFallbackExecutor used on its own, as src/tests/test_fallback.py and
\* a caller with the right arguments use it.  The scraper class is the
\* external extractor: what it does for one model is chosen when the model
\* is tried.

\* every variable of the batch processor and of the endpoint in front of it
Batch == <<config, graph_config, cache_enabled, urls, schema_name, repeat,
           phase, call, pc, result, raised, gather_exception, timed_out,
           ext, semaphore, threads, cache_store, rate_limiter, log, results,
           prev_success, response>>

\* a processor on which process_batch is never called
NoBatch ==
    /\ config = [max_concurrent |-> 1, continue_on_error |-> TRUE,
                 use_cache |-> TRUE, use_rate_limiting |-> TRUE,
                 use_fallback |-> TRUE, validate_results |-> TRUE]
    /\ graph_config = [llm_model |-> fallback_chain[1]]
    /\ cache_enabled = FALSE
    /\ urls = <<>>
    /\ schema_name = None
    /\ repeat = FALSE
    /\ phase = "idle"
    /\ call = 0
    /\ pc = <<>>
    /\ result = <<>>
    /\ raised = <<>>
    /\ gather_exception = None
    /\ timed_out = <<>>
    /\ ext = <<>>
    /\ semaphore = 1
    /\ threads = {}
    /\ cache_store = <<>>
    /\ rate_limiter = [request_count |-> 0, last_request_time |-> None]
    /\ log = <<>>
    /\ results = <<>>
    /\ prev_success = <<>>
    /\ response = NoResponse

ModelNames == {"A", "B"}
DEFAULT_FALLBACK_CHAIN == <<"qwen2.5-coder:7b", "llama3.1", "deepseek-coder-v2">>

\* the chains handed to the constructor
ChainArgs == UNION {SeqsOfLen(ModelNames, n) : n \in 0..MaxChain}

\* ModelFallbackExecutor.__init__
ModelFallbackExecutor(chain) ==
    [fallback_chain |-> IF chain = <<>> THEN DEFAULT_FALLBACK_CHAIN ELSE chain,
     last_successful_model |-> None]

\* what scraper.run() does: returns a payload, {} or None, or raises
ScraperOutcomes == {"ok", "empty", "none", "throw"}
EmptyDict == "{}"
RunValue(o) == CASE o = "ok" -> RawData
                 [] o = "empty" -> EmptyDict
                 [] OTHER -> None

\* the exception raised by the scraper; its text may name the model it ran
ScraperError(model, named) ==
    [type |-> "Exception", text |-> "scraper failed",
     names |-> IF named THEN {model} ELSE {}]

\* ValueError("Empty result from scraper")
EmptyResultError ==
    [type |-> "ValueError", text |-> "Empty result from scraper",
     names |-> {}]

\* RuntimeError(f"All {len(chain)} models failed. Last error: {last}")
RuntimeError(chain, last) ==
    [type |-> "RuntimeError", chain_length |-> Len(chain),
     last_error |-> last, names |-> last.names]

\* only None counts as an empty result
Empty_none_only(scrape_result) == scrape_result = None

\* "not result or result == {}"
Empty(scrape_result) == scrape_result = None \/ scrape_result = EmptyDict

\* the first exception of the call is kept
Except_first(last, e) == IF last = NoException THEN e ELSE last

\* "except Exception as e: last_exception = e"
Except(last, e) == e

InitFallback ==
    /\ NoBatch
    /\ executor \in {ModelFallbackExecutor(c) : c \in ChainArgs}
    /\ execution = NoExecution
    /\ NoTiming
    /\ NoCaching
    /\ NoMetrics
    /\ retrying = NoRetrying
    /\ timed = NoTimed
    /\ pipeline = NoPipeline
    /\ stealth = NoStealth

\* execute_with_fallback is called: up to the first iteration of the loop
ExecuteWithFallback ==
    /\ execution.pc \in {"idle", "returned", "raised"}
    /\ execution.calls < MaxExecCalls
    /\ execution' = [pc |-> "loop", calls |-> execution.calls + 1,
                     attempt |-> 1, last_exception |-> NoException,
                     invoked |-> <<>>, value |-> NoValue,
                     error |-> NoException,
                     before |-> executor.last_successful_model]
    /\ UNCHANGED <<Batch, BesidesFallback, executor>>

\* one iteration of the loop: the model at position attempt is tried
Attempt ==
    /\ execution.pc = "loop"
    /\ execution.attempt <= Len(executor.fallback_chain)
    /\ \E o \in ScraperOutcomes, named \in BOOLEAN :
          LET model == executor.fallback_chain[execution.attempt]
              scrape_result == RunValue(o)
              e == IF o = "throw" THEN ScraperError(model, named)
                                  ELSE EmptyResultError
              tried == Append(execution.invoked,
                              [model |-> model, outcome |-> o,
                               error |-> IF o = "throw" \/ Empty(scrape_result)
                                         THEN e ELSE NoException])
          IN /\ o # "throw" => ~named
             /\ IF o = "throw" \/ Empty(scrape_result)
                THEN /\ execution' =
                            [execution EXCEPT
                                !.invoked = tried,
                                !.last_exception = Except(@, e),
                                !.attempt = @ + 1]
                     /\ UNCHANGED executor
                ELSE /\ executor' =
                            [executor EXCEPT !.last_successful_model = model]
                     /\ execution' =
                            [execution EXCEPT
                                !.invoked = tried,
                                !.pc = "returned",
                                !.value = [result |-> scrape_result,
                                           model_used |-> model,
                                           attempts |-> execution.attempt]]
    /\ UNCHANGED <<Batch, BesidesFallback>>

\* a call in which every model failed forgets the last successful model
AllFailed_clears ==
    /\ execution.pc = "loop"
    /\ execution.attempt > Len(executor.fallback_chain)
    /\ execution' = [execution EXCEPT
                        !.pc = "raised",
                        !.error = RuntimeError(executor.fallback_chain,
                                               execution.last_exception)]
    /\ executor' = [executor EXCEPT !.last_successful_model = None]
    /\ UNCHANGED <<Batch, BesidesFallback>>

\* the loop ran out of models: RuntimeError
AllFailed ==
    /\ execution.pc = "loop"
    /\ execution.attempt > Len(executor.fallback_chain)
    /\ execution' = [execution EXCEPT
                        !.pc = "raised",
                        !.error = RuntimeError(executor.fallback_chain,
                                               execution.last_exception)]
    /\ UNCHANGED <<Batch, BesidesFallback, executor>>

NextFallback ==
    \/ ExecuteWithFallback
    \/ Attempt
    \/ AllFailed

SpecFallback == InitFallback /\ [][NextFallback]_vars

\* ------------------------------------------------------------ RateLimiter
\* RateLimiter.wait called from up to MaxWaiters executor threads at once,
\* as the pipelines of a batch call it through run_in_executor.  A thread
\* can be preempted between any two accesses to the limiter's fields; time
\* is counted in ticks of the clock.

min_delay_seconds == 2

\* the jitter of get_delay, which never goes below min_delay_seconds
Jitter == {0, 1}

\* the jittered delay without the clamp to min_delay_seconds
get_delay_unclamped == {min_delay_seconds - 1 + j : j \in Jitter}

\* RateLimitConfig.get_delay: the delays it can return
get_delay == {min_delay_seconds + j : j \in Jitter}

\* RateLimiter.__init__
RateLimiter == [last_request_time |-> <<>>, request_count |-> 0]

Waiters == 1..MaxWaiters

\* the frame of a wait() call that has not started
NoWait == [pc |-> "idle", wake |-> 0, required_delay |-> 0, wait_time |-> 0,
           actual_delay |-> 0, request_count |-> 0]

InitLimiter ==
    /\ NoBatch
    /\ executor = NoExecutor
    /\ execution = NoExecution
    /\ NoCaching
    /\ NoMetrics
    /\ retrying = NoRetrying
    /\ timed = NoTimed
    /\ pipeline = NoPipeline
    /\ stealth = NoStealth
    /\ clock = 0
    /\ limiter = RateLimiter
    /\ waiters = [w \in Waiters |-> NoWait]
    /\ returns = <<>>

\* time passes
Tick ==
    /\ clock < MaxClock
    /\ clock' = clock + 1
    /\ UNCHANGED <<Batch, BesidesLimiter, limiter, waiters, returns>>

\* a thread enters wait() and tests "self.last_request_time is None"
WaitCheck(w) ==
    /\ waiters[w].pc = "idle"
    /\ waiters' = [waiters EXCEPT ![w].pc =
                       IF limiter.last_request_time = <<>>
                       THEN "first" ELSE "measure"]
    /\ UNCHANGED <<Batch, BesidesLimiter, clock, limiter, returns>>

\* the branch of the first request: no delay; last_request_time is set and
\* request_count is read for "self.request_count += 1"
WaitFirst(w) ==
    /\ waiters[w].pc = "first"
    /\ limiter' = [limiter EXCEPT !.last_request_time = <<clock>>]
    /\ waiters' = [waiters EXCEPT ![w].pc = "count",
                                  ![w].actual_delay = 0,
                                  ![w].request_count = limiter.request_count]
    /\ UNCHANGED <<Batch, BesidesLimiter, clock, returns>>

\* required_delay and elapsed are computed; the thread sleeps if needed
WaitMeasure(w) ==
    /\ waiters[w].pc = "measure"
    /\ \E required_delay \in get_delay :
          LET elapsed == clock - limiter.last_request_time[1]
          IN waiters' = [waiters EXCEPT
                            ![w] = IF elapsed < required_delay
                                   THEN [@ EXCEPT
                                            !.pc = "sleep",
                                            !.wake = clock + (required_delay - elapsed),
                                            !.required_delay = required_delay,
                                            !.wait_time = required_delay - elapsed,
                                            !.actual_delay = required_delay]
                                   ELSE [@ EXCEPT
                                            !.pc = "update",
                                            !.wake = clock,
                                            !.required_delay = required_delay,
                                            !.actual_delay = elapsed]]
    /\ UNCHANGED <<Batch, BesidesLimiter, clock, limiter, returns>>

\* the sleep is over (time.sleep sleeps at least wait_time):
\* last_request_time is set and request_count is read
WaitUpdate(w) ==
    /\ waiters[w].pc \in {"sleep", "update"}
    /\ clock >= waiters[w].wake
    /\ limiter' = [limiter EXCEPT !.last_request_time = <<clock>>]
    /\ waiters' = [waiters EXCEPT ![w].pc = "count",
                                  ![w].request_count = limiter.request_count]
    /\ UNCHANGED <<Batch, BesidesLimiter, clock, returns>>

\* "self.request_count += 1", which reads the count and later writes it
Increment(count, read) == read + 1

\* the incremented count is written and wait() returns
WaitCount(w) ==
    /\ waiters[w].pc = "count"
    /\ limiter' = [limiter EXCEPT !.request_count =
                       Increment(@, waiters[w].request_count)]
    /\ returns' = Append(returns, clock)
    /\ waiters' = [waiters EXCEPT ![w].pc = "returned"]
    /\ UNCHANGED <<Batch, BesidesLimiter, clock>>

NextLimiter ==
    \/ Tick
    \/ \E w \in DOMAIN waiters : WaitCheck(w)
    \/ \E w \in DOMAIN waiters : WaitFirst(w)
    \/ \E w \in DOMAIN waiters : WaitMeasure(w)
    \/ \E w \in DOMAIN waiters : WaitUpdate(w)
    \/ \E w \in DOMAIN waiters : WaitCount(w)

SpecLimiter == InitLimiter /\ [][NextLimiter]_vars

\* one caller that calls wait() again and again, each call after the
\* return of the one before
InitLimiterSerial ==
    /\ NoBatch
    /\ executor = NoExecutor
    /\ execution = NoExecution
    /\ NoCaching
    /\ NoMetrics
    /\ retrying = NoRetrying
    /\ timed = NoTimed
    /\ pipeline = NoPipeline
    /\ stealth = NoStealth
    /\ clock = 0
    /\ limiter = RateLimiter
    /\ waiters = <<NoWait>>
    /\ returns = <<>>

\* the caller calls wait() again
WaitAgain(w) ==
    /\ waiters[w].pc = "returned"
    /\ Len(returns) < MaxSerialCalls
    /\ waiters' = [waiters EXCEPT ![w] = NoWait]
    /\ UNCHANGED <<Batch, BesidesLimiter, clock, limiter, returns>>

NextLimiterSerial ==
    \/ NextLimiter
    \/ \E w \in DOMAIN waiters : WaitAgain(w)

SpecLimiterSerial == InitLimiterSerial /\ [][NextLimiterSerial]_vars

\* ----------------------------------------------------------- ScraperCache
\* ScraperCache used on its own: constructed once, then get and set called
\* with a url, a prompt and keyword parameters.  The Redis server can be
\* unreachable at any call.

\* the keyword parameters of a call, in the order the caller wrote them
KwargPairs == {<<"model", m>> : m \in {"A", "B"}} \cup
              {<<"schema", sc>> : sc \in {"none", "product"}}

KwargsArgs ==
    {kw \in UNION {SeqsOfLen(KwargPairs, n) : n \in 0..2} :
        \A i, j \in 1..Len(kw) : i # j => kw[i][1] # kw[j][1]}

Prompts == {"p", "q"}

\* what the caller asks to cache: a payload, or an object json cannot encode
SetArgs == {RawData, "object"}

\* the dict {'url': url, 'prompt': prompt, **kwargs}, in insertion order
key_data(url, prmpt, kwargs) == <<<<"url", url>>, <<"prompt", prmpt>>>> \o kwargs

\* the key names in alphabetical order
SortedNames == <<"model", "prompt", "schema", "url">>

\* json.dumps(d) without sort_keys: the items in insertion order
json_dumps_unsorted(d) == <<"json", d>>

\* json.dumps(d, sort_keys=True): the items in the order of their keys
json_dumps_sort_keys(d) ==
    LET present == SelectSeq(SortedNames,
                             LAMBDA n : \E i \in 1..Len(d) : d[i][1] = n)
        item(n) == d[CHOOSE i \in 1..Len(d) : d[i][1] = n]
    IN <<"json", [k \in 1..Len(present) |-> item(present[k])]>>

\* "scrape:" + sha256(text).hexdigest()[:16]; no two of the texts of this
\* model have the same digest
scrape_key(jsn) == <<"scrape", jsn[2]>>

\* ScraperCache._make_key
ScraperCache_make_key(url, prmpt, kwargs) ==
    scrape_key(json_dumps_sort_keys(key_data(url, prmpt, kwargs)))

\* ScraperCache.__init__; ping_fails: the server cannot be reached
ScraperCache(enabled, ping_fails) ==
    IF ~enabled THEN [enabled |-> FALSE, client |-> None]
    ELSE IF ping_fails THEN [enabled |-> FALSE, client |-> None]
    ELSE [enabled |-> TRUE, client |-> "Redis"]

\* how a call ended
Returns(value) == [outcome |-> "returned", value |-> value]
Raises == [outcome |-> "raised", value |-> None]

\* a get without the try / except around the store access
ScraperCache_get_unguarded(c, store, url, prmpt, kwargs, store_fails) ==
    IF ~c.enabled \/ c.client = None THEN Returns(None)
    ELSE IF store_fails THEN Raises
    ELSE LET key == ScraperCache_make_key(url, prmpt, kwargs)
         IN IF key \in DOMAIN store THEN Returns(json_loads(store[key]))
                                    ELSE Returns(None)

\* ScraperCache.get; store_fails: client.get raises
ScraperCache_get(c, store, url, prmpt, kwargs, store_fails) ==
    IF ~c.enabled \/ c.client = None THEN Returns(None)
    ELSE IF store_fails THEN Returns(None)
    ELSE LET key == ScraperCache_make_key(url, prmpt, kwargs)
         IN IF key \in DOMAIN store THEN Returns(json_loads(store[key]))
                                    ELSE Returns(None)

\* ScraperCache.set: how the call ends; json.dumps raises on "object",
\* client.setex raises when store_fails
ScraperCache_set(c, data, store_fails) ==
    IF ~c.enabled \/ c.client = None THEN Returns(FALSE)
    ELSE IF data = "object" \/ store_fails THEN Returns(FALSE)
    ELSE Returns(TRUE)

\* the server after client.setex(key, ttl, json.dumps(data))
setex(store, key, data) ==
    [k \in DOMAIN store \cup {key} |->
        IF k = key THEN json_dumps(data) ELSE store[k]]

InitCache ==
    /\ NoBatch
    /\ executor = NoExecutor
    /\ execution = NoExecution
    /\ NoTiming
    /\ NoMetrics
    /\ retrying = NoRetrying
    /\ timed = NoTimed
    /\ pipeline = NoPipeline
    /\ stealth = NoStealth
    /\ cache = [enabled |-> FALSE, client |-> None]
    /\ redis = <<>>
    /\ cache_calls = <<>>

\* cache = ScraperCache(enabled=...)
CacheConstruct ==
    /\ cache_calls = <<>>
    /\ \E enabled \in BOOLEAN, ping_fails \in BOOLEAN :
          /\ cache' = ScraperCache(enabled, ping_fails)
          /\ cache_calls' = <<[op |-> "init", enabled |-> enabled,
                               store_fails |-> ping_fails,
                               url |-> None, prompt |-> None,
                               kwargs |-> <<>>, key |-> <<>>,
                               end |-> Returns(None)]>>
    /\ UNCHANGED <<Batch, BesidesCache, redis>>

\* cache.get(url, prompt, **kwargs)
CacheGet ==
    /\ cache_calls # <<>>
    /\ Len(cache_calls) <= MaxCacheCalls
    /\ \E url \in URLS, prmpt \in Prompts, kwargs \in KwargsArgs,
          store_fails \in BOOLEAN :
          cache_calls' =
              Append(cache_calls,
                     [op |-> "get", enabled |-> cache.enabled,
                      store_fails |-> store_fails,
                      url |-> url, prompt |-> prmpt, kwargs |-> kwargs,
                      key |-> ScraperCache_make_key(url, prmpt, kwargs),
                      end |-> ScraperCache_get(cache, redis, url, prmpt,
                                               kwargs, store_fails)])
    /\ UNCHANGED <<Batch, BesidesCache, cache, redis>>

\* cache.set(url, prompt, result, **kwargs)
CacheSet ==
    /\ cache_calls # <<>>
    /\ Len(cache_calls) <= MaxCacheCalls
    /\ \E url \in URLS, prmpt \in Prompts, kwargs \in KwargsArgs,
          data \in SetArgs, store_fails \in BOOLEAN :
          LET key == ScraperCache_make_key(url, prmpt, kwargs)
              end == ScraperCache_set(cache, data, store_fails)
          IN /\ cache_calls' =
                    Append(cache_calls,
                           [op |-> "set", enabled |-> cache.enabled,
                            store_fails |-> store_fails,
                            url |-> url, prompt |-> prmpt,
                            kwargs |-> kwargs, key |-> key, end |-> end])
             /\ redis' = IF end = Returns(TRUE) THEN setex(redis, key, data)
                                                ELSE redis
    /\ UNCHANGED <<Batch, BesidesCache, cache>>

NextCache ==
    \/ CacheConstruct
    \/ CacheGet
    \/ CacheSet

SpecCache == InitCache /\ [][NextCache]_vars

\* ------------------------------------------------------- batch endpoint
\* POST /scrape/batch (src/api/routes/scrape.py): the request is handed to
\* TUIScraperBackend.scrape_batch, which builds a processor of its own for
\* it (continue_on_error=True, the other switches of BatchConfig at their
\* defaults or taken from the request) on the shared cache, and returns
\* what process_batch returns; the endpoint turns that into a
\* BatchScrapeResponse.

\* the Redis server outlives the processors: it is empty, or holds what a
\* processor with use_fallback=False stored for "u1" under the lookup key
StoredBefore ==
    {<<>>,
     [k \in {make_key("u1", prompt, fallback_chain[1], "none")} |->
          json_dumps(RawData)]}

InitEndpoint ==
    /\ config \in {c \in Configs : /\ c.continue_on_error
                                   /\ c.use_fallback
                                   /\ c.validate_results}
    /\ graph_config = [llm_model |-> fallback_chain[1]]
    /\ cache_enabled \in BOOLEAN
    /\ Distinct(config, cache_enabled)
    /\ urls \in UrlLists \ {<<>>}
    /\ schema_name \in {None, "product"}
    /\ repeat = FALSE
    /\ phase = "idle"
    /\ call = 0
    /\ pc = <<>>
    /\ result = <<>>
    /\ raised = <<>>
    /\ gather_exception = None
    /\ timed_out = <<>>
    /\ ext = <<>>
    /\ semaphore = config.max_concurrent
    /\ threads = {}
    /\ cache_store \in StoredBefore
    /\ cache_store # <<>> => config.use_cache /\ cache_enabled
    /\ rate_limiter = [request_count |-> 0, last_request_time |-> None]
    /\ log = <<>>
    /\ results = <<>>
    /\ prev_success = <<>>
    /\ executor = NoExecutor
    /\ execution = NoExecution
    /\ NoTiming
    /\ NoCaching
    /\ NoMetrics
    /\ retrying = NoRetrying
    /\ timed = NoTimed
    /\ pipeline = NoPipeline
    /\ stealth = NoStealth
    /\ response = NoResponse

\* result.get(...): scraper.batch.BatchResult is a dataclass and has no
\* get method
HasGet(r) == FALSE

AttributeErrorMessage ==
    "Batch scraping failed: 'BatchResult' object has no attribute 'get'"

\* the summary of the response
Summary(total, successful, failed) ==
    [total |-> total, successful |-> successful, failed |-> failed]

\* the body of the endpoint from the return of backend.scrape_batch
BatchScrapeResponse(rs) ==
    IF \E k \in 1..Len(rs) : ~HasGet(rs[k])
    THEN \* AttributeError in the conversion loop: "except Exception"
         [success |-> FALSE, results |-> <<>>,
          summary |-> Summary(Len(urls), 0, Len(urls)),
          error |-> AttributeErrorMessage]
    ELSE LET successful ==
                 Cardinality({k \in 1..Len(rs) : rs[k].success})
         IN [success |-> successful > 0, results |-> rs,
             summary |-> Summary(Len(rs), successful, Len(rs) - successful),
             error |-> IF successful > 0 THEN None
                       ELSE "All URLs failed to scrape"]

\* scrape_batch answers the request
ScrapeBatch ==
    /\ phase = "returned"
    /\ response = NoResponse
    /\ response' = BatchScrapeResponse(results)
    /\ UNCHANGED <<config, graph_config, cache_enabled, urls, schema_name,
                   repeat, phase, call, pc, result, raised,
                   gather_exception, timed_out, ext, semaphore, threads,
                   cache_store, rate_limiter, log, results, prev_success,
                   executor, execution, Timing, Caching, Metrics,
                   retrying, timed, pipeline, stealth>>

NextEndpoint ==
    \/ ProcessBatch
    \/ \E i \in Items : ScrapeWithSemaphore(i)
    \/ \E i \in Items : LimiterReturn(i)
    \/ \E i \in Items : ExecutorReturn(i)
    \/ \E i \in Items : Timeout(i)
    \/ \E t \in threads : AbandonedReturn(t)
    \/ ProcessBatchReturn
    \/ ScrapeBatch

SpecEndpoint == InitEndpoint /\ [][NextEndpoint]_vars

\* -------------------------------------------------------------- MetricsDB
\* MetricsDB used on its own: log_scrape inserts a row stamped with the
\* time of the call, get_stats(days) aggregates the rows of the last days
\* days.  A day is a tick of the clock.  An SQL value that can be NULL is
\* <<>> for NULL (None in Python) and <<v>> for the value v.

NULL == <<>>

\* the error argument of log_scrape: None, the empty text or a message
ErrorArgs == {NULL, <<"">>, <<"boom">>}

ExecutionTimes == {1, 2}

InitMetrics ==
    /\ NoBatch
    /\ executor = NoExecutor
    /\ execution = NoExecution
    /\ NoTiming
    /\ NoCaching
    /\ retrying = NoRetrying
    /\ timed = NoTimed
    /\ pipeline = NoPipeline
    /\ stealth = NoStealth
    /\ scrapes = <<>>
    /\ stats = NoStats

\* a day passes
Day ==
    /\ clock < MaxClock
    /\ clock' = clock + 1
    /\ UNCHANGED <<Batch, BesidesMetrics, scrapes, stats>>

\* MetricsDB.log_scrape
LogScrape ==
    /\ Len(scrapes) < MaxRows
    /\ \E cached \in BOOLEAN, error \in ErrorArgs,
          validation_passed \in BOOLEAN,
          execution_time \in ExecutionTimes :
          scrapes' = Append(scrapes,
                            [timestamp |-> clock, cached |-> cached,
                             error |-> error,
                             validation_passed |-> validation_passed,
                             execution_time_seconds |-> execution_time])
    /\ UNCHANGED <<Batch, BesidesMetrics, clock, stats>>

\* WHERE timestamp >= cutoff
Where(rows, cutoff) == SelectSeq(rows, LAMBDA r : r.timestamp >= cutoff)

RECURSIVE TotalTime(_)
TotalTime(rows) ==
    IF rows = <<>> THEN 0
    ELSE Head(rows).execution_time_seconds + TotalTime(Tail(rows))

\* AVG(execution_time_seconds): NULL over no row, else the quotient, kept
\* as the sum and the number of rows
AVG(rows) ==
    IF rows = <<>> THEN NULL
    ELSE <<[sum |-> TotalTime(rows), count |-> Len(rows)]>>

\* SUM(CASE WHEN ... THEN 1 ELSE 0 END): NULL over no row, else the number
\* of the rows picked out of rows
SUM_CASE(rows, picked) == IF rows = <<>> THEN NULL ELSE <<Len(picked)>>

\* MetricsDB.get_stats
get_stats(rows, now, days) ==
    LET w == Where(rows, now - days)
        total == Len(w)
        hits == SUM_CASE(w, SelectSeq(w, LAMBDA r : r.cached))
        errs == SUM_CASE(w, SelectSeq(w, LAMBDA r : r.error # NULL))
        bad == SUM_CASE(w, SelectSeq(w, LAMBDA r : ~r.validation_passed))
    IN [total_scrapes |-> total,
        avg_time |-> AVG(w),
        cache_hits |-> hits,
        errors |-> errs,
        validation_failures |-> bad,
        cache_hit_rate |-> IF total > 0 THEN (hits[1] * 100) \div total
                                        ELSE 0,
        error_rate |-> IF total > 0 THEN (errs[1] * 100) \div total ELSE 0,
        days |-> days]

\* stats = db.get_stats(days)
GetStats ==
    /\ \E days \in 1..MaxDays : stats' = get_stats(scrapes, clock, days)
    /\ UNCHANGED <<Batch, BesidesMetrics, clock, scrapes>>

NextMetrics ==
    \/ Day
    \/ LogScrape
    \/ GetStats

SpecMetrics == InitMetrics /\ [][NextMetrics]_vars

\* ------------------------------------------------------ scrape_with_retry
\* scrape_with_retry (src/scraper/utils.py) under its tenacity decorator:
\* stop_after_attempt(3), retry_if_exception_type((ConnectionError,
\* TimeoutError, ValueError)), reraise=True.  The waits between attempts
\* take time only.

stop_after_attempt == 3

\* what scraper_func does at one attempt: returns a payload, {} or None, or
\* raises an exception of the type named
FuncOutcomes == {"ok", "empty", "none", "ConnectionError", "TimeoutError",
                 "ValueError", "ConnectionRefusedError", "KeyError"}

\* the classes an exception type is a subclass of, itself included
Bases(type) ==
    IF type = "ConnectionRefusedError"
    THEN {"ConnectionRefusedError", "ConnectionError", "OSError"}
    ELSE IF type = "KeyError" THEN {"KeyError", "LookupError"}
    ELSE IF type \in {"ConnectionError", "TimeoutError"}
    THEN {type, "OSError"}
    ELSE {type}

\* the exception that leaves the body of scrape_with_retry, or None
Raised(o) ==
    IF o = "ok" THEN None
    ELSE IF o \in {"empty", "none"}
    THEN "ValueError"     \* ValueError("Empty scraping result")
    ELSE o

\* retry on every exception
retry_if_exception_type_any(type) == TRUE

\* retry_if_exception_type((ConnectionError, TimeoutError, ValueError))
retry_if_exception_type(type) ==
    Bases(type) \cap {"ConnectionError", "TimeoutError", "ValueError"} # {}

InitRetry ==
    /\ NoBatch
    /\ executor = NoExecutor
    /\ execution = NoExecution
    /\ NoTiming
    /\ NoCaching
    /\ NoMetrics
    /\ retrying = NoRetrying
    /\ timed = NoTimed
    /\ pipeline = NoPipeline
    /\ stealth = NoStealth

\* scrape_with_retry(scraper_func) is called
ScrapeWithRetry ==
    /\ retrying.pc = "idle"
    /\ retrying' = [retrying EXCEPT !.pc = "running", !.attempt_number = 1]
    /\ UNCHANGED <<Batch, BesidesRetry>>

\* one attempt: the body runs, then tenacity returns the result, raises
\* the exception or goes on to the next attempt
RetryAttempt ==
    /\ retrying.pc = "running"
    /\ \E o \in FuncOutcomes :
          LET e == Raised(o)
              tried == Append(retrying.outcomes, o)
          IN retrying' =
                 IF e = None
                 THEN [retrying EXCEPT !.pc = "returned",
                                       !.outcomes = tried,
                                       !.value = RawData]
                 ELSE IF ~retry_if_exception_type(e)
                         \/ retrying.attempt_number >= stop_after_attempt
                 THEN [retrying EXCEPT
                          !.pc = "raised",
                          !.outcomes = tried,
                          !.error = [type |-> e,
                                     attempt |-> retrying.attempt_number]]
                 ELSE [retrying EXCEPT !.outcomes = tried,
                                       !.attempt_number = @ + 1]
    /\ UNCHANGED <<Batch, BesidesRetry>>

NextRetry ==
    \/ ScrapeWithRetry
    \/ RetryAttempt

SpecRetry == InitRetry /\ [][NextRetry]_vars

\* ---------------------------------------------------- per-item deadline
\* _scrape_with_semaphore with wall-clock time.  The tasks of one
\* process_batch call queue for the semaphore; a task that has entered
\* "async with self.semaphore" runs _scrape_single under
\* asyncio.wait_for(..., timeout=timeout_per_url).  The limiter wait and the
\* extraction run in worker threads and end at any time; the event loop is
\* idle meanwhile, so a timer that has expired fires before the clock is
\* seen to advance again.

timeout_per_url == 2

\* a task created by process_batch, before it has the semaphore
QueuedTask == [pc |-> "queued", acquired |-> <<>>, limited |-> <<>>,
               ended |-> <<>>, outcome |-> "none"]

\* a deadline counted from the creation of the tasks (time 0)
wait_for_from_creation(acquired) == timeout_per_url

\* asyncio.wait_for: the time at which the timer set at its call expires
wait_for(acquired) == acquired + timeout_per_url

\* the task is inside wait_for, awaiting a call in a worker thread
InWaitFor(t) == t.pc \in {"rl_wait", "extracting"}

InitDeadline ==
    /\ NoBatch
    /\ executor = NoExecutor
    /\ execution = NoExecution
    /\ NoTiming
    /\ NoCaching
    /\ NoMetrics
    /\ retrying = NoRetrying
    /\ timed \in {[pc |-> "idle", now |-> 0, value |-> n,
                   use_rate_limiting |-> rl, tasks |-> <<>>] :
                     n \in 1..MaxConcurrent, rl \in BOOLEAN}
    /\ pipeline = NoPipeline
    /\ stealth = NoStealth

\* process_batch creates its tasks
DeadlineProcessBatch ==
    /\ timed.pc = "idle"
    /\ \E n \in 1..MaxTasks :
          timed' = [timed EXCEPT !.pc = "running",
                                 !.tasks = [i \in 1..n |-> QueuedTask]]
    /\ UNCHANGED <<Batch, BesidesDeadline>>

\* time passes
DeadlineTick ==
    /\ timed.pc = "running"
    /\ timed.now < MaxTime
    /\ \A i \in DOMAIN timed.tasks :
          InWaitFor(timed.tasks[i]) =>
              timed.now < wait_for(timed.tasks[i].acquired[1])
    /\ timed' = [timed EXCEPT !.now = @ + 1]
    /\ UNCHANGED <<Batch, BesidesDeadline>>

\* the task enters "async with self.semaphore" and calls wait_for
DeadlineAcquire(i) ==
    /\ timed.tasks[i].pc = "queued"
    /\ \A j \in 1..(i - 1) : timed.tasks[j].pc # "queued"
    /\ ~locked(timed.value)
    /\ timed' = [timed EXCEPT
          !.value = @ - 1,
          !.tasks[i].acquired = <<timed.now>>,
          !.tasks[i].limited =
              IF timed.use_rate_limiting THEN <<>> ELSE <<timed.now>>,
          !.tasks[i].pc =
              IF timed.use_rate_limiting THEN "rl_wait" ELSE "extracting"]
    /\ UNCHANGED <<Batch, BesidesDeadline>>

\* rate_limiter.wait has returned and the extraction is submitted
DeadlineLimiterReturn(i) ==
    /\ timed.tasks[i].pc = "rl_wait"
    /\ timed' = [timed EXCEPT !.tasks[i].pc = "extracting",
                              !.tasks[i].limited = <<timed.now>>]
    /\ UNCHANGED <<Batch, BesidesDeadline>>

\* the extraction has returned or raised; the pipeline ends and the slot
\* is released
DeadlineExecutorReturn(i) ==
    /\ timed.tasks[i].pc = "extracting"
    /\ \E o \in {"success", "failed"} :
          timed' = [timed EXCEPT !.value = @ + 1,
                                 !.tasks[i].pc = "done",
                                 !.tasks[i].ended = <<timed.now>>,
                                 !.tasks[i].outcome = o]
    /\ UNCHANGED <<Batch, BesidesDeadline>>

\* the timer of wait_for has expired: _scrape_single is cancelled, the
\* timeout result is returned and the slot is released
DeadlineTimeout(i) ==
    /\ InWaitFor(timed.tasks[i])
    /\ timed.now >= wait_for(timed.tasks[i].acquired[1])
    /\ timed' = [timed EXCEPT !.value = @ + 1,
                              !.tasks[i].pc = "done",
                              !.tasks[i].ended = <<timed.now>>,
                              !.tasks[i].outcome = "timeout"]
    /\ UNCHANGED <<Batch, BesidesDeadline>>

NextDeadline ==
    \/ DeadlineProcessBatch
    \/ DeadlineTick
    \/ \E i \in DOMAIN timed.tasks : DeadlineAcquire(i)
    \/ \E i \in DOMAIN timed.tasks : DeadlineLimiterReturn(i)
    \/ \E i \in DOMAIN timed.tasks : DeadlineExecutorReturn(i)
    \/ \E i \in DOMAIN timed.tasks : DeadlineTimeout(i)

SpecDeadline == InitDeadline /\ [][NextDeadline]_vars

\* ------------------------------------------------- stages of a pipeline
\* One call of _scrape_single under _scrape_with_semaphore, statement by
\* statement.  settings.use_cache, use_rate_limiting and use_fallback are
\* the fields of BatchConfig, settings.enabled is cache.enabled,
\* settings.stored says that the cache holds a truthy entry under the
\* lookup key, settings.checked stands for "schema_name and
\* config.validate_results".  stages lists the calls made to the
\* collaborators, in the order they are made; rate_limiter is the state of
\* the limiter.

PipelineSettings ==
    {st \in [use_cache : BOOLEAN, enabled : BOOLEAN, stored : BOOLEAN,
             use_rate_limiting : BOOLEAN, use_fallback : BOOLEAN,
             checked : BOOLEAN] : st.stored => st.enabled}

\* the cache is consulted whenever it is connected
CacheInUse_enabled_only(st) == st.enabled

\* "self.config.use_cache and self.cache.enabled"
CacheInUse(st) == st.use_cache /\ st.enabled

\* what an awaited call does: it returns, it raises, or it outlasts the
\* deadline and the coroutine is cancelled at the await
AwaitOutcomes == {"returns", "raises", "timeout"}

LimiterMessage == "rate limiter failed"

\* the statement that follows a stage in the try body
After(stage) ==
    CASE stage = "cache_lookup" -> "limit"
      [] stage = "rate_limiter_wait" -> "extract"
      [] stage = "extractor" -> "validate"
      [] stage = "validation" -> "write"
      [] OTHER -> "finally"

\* an exception handler that records the error and resumes the try body
except_Exception_resumes(p, stage, message) ==
    [p EXCEPT !.success = FALSE, !.error = message, !.failed_at = stage,
              !.pc = After(stage)]

\* "except Exception as e": the rest of the try body is skipped
except_Exception(p, stage, message) ==
    [p EXCEPT !.success = FALSE, !.error = message, !.failed_at = stage,
              !.pc = "finally"]

\* CancelledError thrown into the coroutine by wait_for: no except branch
\* takes it, the finally block runs
Cancelled(p, stage) ==
    [p EXCEPT !.failed_at = stage, !.timed_out = TRUE, !.pc = "finally"]

Staged(p, stage) == [p EXCEPT !.stages = Append(@, stage)]

InitPipeline ==
    /\ NoBatch
    /\ executor = NoExecutor
    /\ execution = NoExecution
    /\ NoTiming
    /\ NoCaching
    /\ NoMetrics
    /\ retrying = NoRetrying
    /\ timed = NoTimed
    /\ pipeline \in {[NoPipeline EXCEPT !.settings = st] :
                        st \in PipelineSettings}
    /\ stealth = NoStealth

\* _scrape_single is entered: result = BatchResult(url, index)
ScrapeSingle ==
    /\ pipeline.pc = "idle"
    /\ pipeline' = [pipeline EXCEPT !.pc = "lookup"]
    /\ UNCHANGED <<Batch, BesidesPipeline>>

\* Step 1: cache lookup; on a hit the callback is invoked and the function
\* returns from inside the try body
PipelineLookup ==
    /\ pipeline.pc = "lookup"
    /\ pipeline' =
          IF ~CacheInUse(pipeline.settings)
          THEN [pipeline EXCEPT !.pc = "limit"]
          ELSE IF pipeline.settings.stored
          THEN [pipeline EXCEPT
                   !.stages = @ \o <<"cache_lookup", "progress">>,
                   !.success = TRUE, !.data = RawData, !.cached = TRUE,
                   !.pc = "finally"]
          ELSE [Staged(pipeline, "cache_lookup") EXCEPT !.pc = "limit"]
    /\ UNCHANGED <<Batch, BesidesPipeline>>

\* Step 2: rate_limiter.wait in a worker thread
PipelineLimit ==
    /\ pipeline.pc = "limit"
    /\ IF ~pipeline.settings.use_rate_limiting
       THEN pipeline' = [pipeline EXCEPT !.pc = "extract"]
       ELSE \E o \in AwaitOutcomes :
               LET p == Staged(pipeline, "rate_limiter_wait")
               IN pipeline' =
                     CASE o = "returns" ->
                            [p EXCEPT !.pc = "extract",
                                      !.rate_limiter = wait(@)]
                       [] o = "raises" ->
                            except_Exception(p, "rate_limiter_wait",
                                             LimiterMessage)
                       [] OTHER -> Cancelled(p, "rate_limiter_wait")
    /\ UNCHANGED <<Batch, BesidesPipeline>>

\* Step 3: the extractor, through execute_with_fallback (TypeError on the
\* call itself) or through graph.run
PipelineExtract ==
    /\ pipeline.pc = "extract"
    /\ LET p == Staged(pipeline, "extractor")
       IN IF pipeline.settings.use_fallback
          THEN pipeline' = except_Exception(p, "extractor", ArityMessage)
          ELSE \E o \in AwaitOutcomes, d \in {RawData, None} :
                  pipeline' =
                     CASE o = "returns" ->
                            [p EXCEPT !.data = d, !.pc = "validate"]
                       [] o = "raises" ->
                            except_Exception(p, "extractor",
                                             ExtractorMessage)
                       [] OTHER -> Cancelled(p, "extractor")
    /\ UNCHANGED <<Batch, BesidesPipeline>>

\* Step 4: validate_data, which returns a verdict and never raises
PipelineValidate ==
    /\ pipeline.pc = "validate"
    /\ IF ~pipeline.settings.checked
       THEN pipeline' = [pipeline EXCEPT !.pc = "write"]
       ELSE \E accepted \in BOOLEAN :
               LET v == validate_data(pipeline.data, "product", accepted)
               IN pipeline' =
                     [Staged(pipeline, "validation") EXCEPT
                         !.data = IF v.is_valid THEN v.data ELSE @,
                         !.pc = "write"]
    /\ UNCHANGED <<Batch, BesidesPipeline>>

\* Step 5: cache.set, which swallows its errors, then success = True
PipelineWrite ==
    /\ pipeline.pc = "write"
    /\ LET p == IF CacheInUse(pipeline.settings) /\ Truthy(pipeline.data)
                THEN Staged(pipeline, "cache_write")
                ELSE pipeline
       IN pipeline' = [p EXCEPT !.success = TRUE, !.pc = "finally"]
    /\ UNCHANGED <<Batch, BesidesPipeline>>

\* the finally block (Step 6 and the callback), then the return of
\* _scrape_with_semaphore: the result, or the timeout result after a
\* cancellation
PipelineFinally ==
    /\ pipeline.pc = "finally"
    /\ LET p == [pipeline EXCEPT
                    !.stages = @ \o <<"metrics_log", "progress">>,
                    !.pc = "done"]
       IN pipeline' =
             IF pipeline.timed_out
             THEN [p EXCEPT !.success = FALSE, !.error = TimeoutMessage,
                            !.data = None]
             ELSE p
    /\ UNCHANGED <<Batch, BesidesPipeline>>

NextPipeline ==
    \/ ScrapeSingle
    \/ PipelineLookup
    \/ PipelineLimit
    \/ PipelineExtract
    \/ PipelineValidate
    \/ PipelineWrite
    \/ PipelineFinally

SpecPipeline == InitPipeline /\ [][NextPipeline]_vars

\* ------------------------------------------- the batch's metrics records
\* the row of the scrapes table that the log_scrape call of the finally
\* block inserts for a metrics event of the log: error is the text
\* "result.error or ''", never None; execution times are not represented
MetricRow(e) ==
    [timestamp |-> clock, cached |-> e.cached, error |-> <<e.error>>,
     validation_passed |-> result[e.index + 1].validation_passed # "False",
     execution_time_seconds |-> 1]

\* the rows appended to the metrics table by the current process_batch call
BatchRows ==
    LET events == SelectSeq(log, LAMBDA e : e.kind = "metric")
    IN [k \in 1..Len(events) |-> MetricRow(events[k])]

\* ------------------------------------------------------ stealth headers
\* Step 2.5 of _scrape_single with the dict objects it works on.  heap
\* holds the loader_kwargs dicts, a dict being its optional "headers"
\* entry (<<>> when the key is absent); a configuration refers to its
\* loader_kwargs by the position of the dict in heap (<<>> when it has no
\* such key).  The other keys of the configurations are never written.

\* headers that StealthHeaders.get_headers may return (random user agent
\* and Accept-Language)
HeaderChoices == {"h1", "h2"}

\* the loader_kwargs the caller may have put into graph_config: none, an
\* empty dict, or headers of the caller's own
LoaderKwargsArgs == {<<>>, <<[headers |-> <<>>]>>, <<[headers |-> <<"h0">>]>>}

\* a configuration with the dicts it refers to written out
Deep(cfg, heap) ==
    IF cfg.loader_kwargs = <<>> THEN <<>>
    ELSE <<heap[cfg.loader_kwargs[1]]>>

\* dict.copy(): a new top-level dict that refers to the same nested dicts
copy(cfg, heap) == [dict |-> cfg, heap |-> heap]

InitStealth ==
    /\ NoBatch
    /\ executor = NoExecutor
    /\ execution = NoExecution
    /\ NoTiming
    /\ NoCaching
    /\ NoMetrics
    /\ retrying = NoRetrying
    /\ timed = NoTimed
    /\ pipeline = NoPipeline
    /\ stealth \in
          {[NoStealth EXCEPT
               !.use_stealth = us,
               !.heap = lk,
               !.graph_config =
                   [loader_kwargs |-> IF lk = <<>> THEN <<>> ELSE <<1>>],
               !.original = lk] :
             us \in BOOLEAN, lk \in LoaderKwargsArgs}

\* process_batch creates its tasks
StealthProcessBatch ==
    /\ stealth.pc = <<>>
    /\ \E n \in 1..MaxTasks :
          stealth' = [stealth EXCEPT
                         !.pc = [i \in 1..n |-> "start"],
                         !.scraping_config = [i \in 1..n |-> <<>>],
                         !.chosen = [i \in 1..n |-> <<>>]]
    /\ UNCHANGED <<Batch, BesidesStealth>>

\* Step 2.5 of one pipeline, which has no suspension point; the
\* configuration is then handed to the extractor
ApplyStealthHeaders(i) ==
    /\ stealth.pc[i] = "start"
    /\ LET c == copy(stealth.graph_config, stealth.heap)
       IN IF ~stealth.use_stealth
          THEN stealth' = [stealth EXCEPT
                              !.scraping_config[i] = <<c.dict>>,
                              !.heap = c.heap,
                              !.pc[i] = "extracting"]
          ELSE \E stealth_hdrs \in HeaderChoices :
                  LET fresh == c.dict.loader_kwargs = <<>>
                      h == IF fresh
                           THEN Append(c.heap, [headers |-> <<>>])
                           ELSE c.heap
                      ref == IF fresh THEN Len(h)
                                      ELSE c.dict.loader_kwargs[1]
                  IN stealth' = [stealth EXCEPT
                         !.scraping_config[i] =
                             <<[c.dict EXCEPT !.loader_kwargs = <<ref>>]>>,
                         !.heap = [h EXCEPT
                                      ![ref].headers = <<stealth_hdrs>>],
                         !.chosen[i] = <<stealth_hdrs>>,
                         !.pc[i] = "extracting"]
    /\ UNCHANGED <<Batch, BesidesStealth>>

\* the pipeline ends
StealthPipelineEnd(i) ==
    /\ stealth.pc[i] = "extracting"
    /\ stealth' = [stealth EXCEPT !.pc[i] = "done"]
    /\ UNCHANGED <<Batch, BesidesStealth>>

NextStealth ==
    \/ StealthProcessBatch
    \/ \E i \in DOMAIN stealth.pc : ApplyStealthHeaders(i)
    \/ \E i \in DOMAIN stealth.pc : StealthPipelineEnd(i)

SpecStealth == InitStealth /\ [][NextStealth]_vars

\* ================================================================ claims
Returned == phase = "returned"

ProgressCalls == SelectSeq(log, LAMBDA e : e.kind = "progress")
MetricRows == SelectSeq(log, LAMBDA e : e.kind = "metric")

\* number of events of a kind logged for item i
Count(kind, i) ==
    Cardinality({k \in 1..Len(log) :
                    log[k].kind = kind /\ log[k].index = i - 1})

\* pipelines between "acquire slot" and "release slot"
Holding == {i \in DOMAIN pc : pc[i] \in {"rl_wait", "extracting"}}

\* extractor invocations started and not yet returned
InFlight == {t \in threads : t.kind = "run"}

\* graph.run was started for item i in this call
Invoked(i) == ~config.use_fallback /\ ext[i] # "unset"

\* C1: with continue_on_error=true process_batch returns exactly len(urls)
\* results, the i-th with index i and url urls[i], whatever the order in
\* which the pipelines completed.
C1_OrderedResults ==
    (Returned /\ config.continue_on_error) =>
        /\ Len(results) = Len(urls)
        /\ \A i \in Items : /\ results[i].index = i - 1
                            /\ results[i].url = urls[i]

\* C1 witness: a returned batch of two items whose second item completed
\* first.
C1_Witness ==
    /\ Returned /\ config.continue_on_error
    /\ Len(urls) = 2
    /\ Len(ProgressCalls) = 2
    /\ ProgressCalls[1].index = 1
    /\ urls[1] # urls[2]

\* C2 (as stated): at every instant at most max_concurrent extractor
\* invocations are started and not yet returned, counting those still
\* running in an executor thread.
C2_InFlightBound == Cardinality(InFlight) <= config.max_concurrent

\* C3: at most max_concurrent pipelines hold a slot, the semaphore counts
\* them, and a pipeline gives its slot up only by producing its result.
C3_SlotDiscipline ==
    /\ [](/\ Cardinality(Holding) <= config.max_concurrent
          /\ semaphore = config.max_concurrent - Cardinality(Holding))
    /\ [][\A i \in Holding :
             i \notin Holding' =>
                 /\ pc'[i] = "done"
                 /\ result'[i].success \/ result'[i].error # None]_vars

\* C3 witness: every slot is held, one of them by a pipeline that had to
\* wait until a pipeline that timed out gave its slot back.
C3_Witness ==
    /\ phase = "running"
    /\ Cardinality(Holding) = config.max_concurrent
    /\ \E i \in Items : /\ pc[i] = "done" /\ timed_out[i]
                         /\ \E j \in Holding : j > i
    /\ config.max_concurrent < Len(urls)

\* C4 (as stated): the progress callback is invoked exactly once per item,
\* whatever the item's outcome.
C4_OneCallbackPerItem ==
    Returned => \A i \in Items : Count("progress", i) = 1

\* C5 (as stated): the completedCount arguments of successive callbacks
\* increase strictly from 1 to the number of items, and the total argument
\* is always the number of items.
C5_ProgressCountsUp ==
    Returned =>
        /\ Len(ProgressCalls) >= 1
        /\ ProgressCalls[1].done = 1
        /\ ProgressCalls[Len(ProgressCalls)].done = Len(urls)
        /\ \A k \in 1..(Len(ProgressCalls) - 1) :
               ProgressCalls[k].done < ProgressCalls[k + 1].done
        /\ \A k \in 1..Len(ProgressCalls) :
               ProgressCalls[k].total = Len(urls)

\* C6 (as stated): with the cache in use, a second call with the same
\* inputs serves every item that succeeded in the first call from the
\* cache, without invoking the extractor for it.
C6_RepeatServedFromCache ==
    (Returned /\ call >= 2 /\ config.use_cache /\ cache_enabled) =>
        \A i \in Items :
            prev_success[i] => results[i].cached /\ ~Invoked(i)

\* C7 (as stated): an item whose extractor hangs beyond the deadline ends
\* with a Timeout error, and every other item whose extractor succeeds
\* ends with success=true.
C7_TimeoutIsolation ==
    Returned =>
        \A i \in Items :
            ext[i] = "hang" =>
                /\ ~results[i].success
                /\ results[i].error = TimeoutMessage
                /\ \A j \in Items \ {i} :
                       ext[j] = "ok" => results[j].success

\* C8 (as stated): with continue_on_error=true there is one result per
\* item, exactly the items whose extractor throws have success=false with
\* a non-empty error, and the items whose extractor succeeds have
\* success=true.
C8_FailuresIsolated ==
    (Returned /\ config.continue_on_error) =>
        /\ Len(results) = Len(urls)
        /\ \A i \in Items :
               /\ ext[i] = "throw" =>
                      /\ ~results[i].success
                      /\ results[i].error \notin {None, ""}
               /\ ext[i] = "ok" => results[i].success

\* C9 (as stated): every returned BatchResult has data and no error when
\* success=true, and an error and no data when success=false.
C9_DataXorError ==
    Returned =>
        \A i \in Items :
            IF results[i].success
            THEN results[i].data # None /\ results[i].error = None
            ELSE results[i].data = None /\ results[i].error # None

\* C10: when process_batch has returned, the metrics table holds exactly
\* one new row per item, whatever the item's outcome.
C10_OneMetricPerItem ==
    Returned =>
        /\ Len(MetricRows) = Len(urls)
        /\ \A i \in Items : Count("metric", i) = 1

\* C10 witness: a returned batch with one item that timed out and one
\* that was served from the cache.
C10_Witness ==
    /\ Returned
    /\ \E i \in Items : timed_out[i]
    /\ \E j \in Items : results[j].cached

\* the models tried so far by the current call are the first models of the
\* chain, in order, each once
TriedInOrder ==
    /\ Len(execution.invoked) <= Len(executor.fallback_chain)
    /\ \A k \in 1..Len(execution.invoked) :
           execution.invoked[k].model = executor.fallback_chain[k]

\* C11: execute_with_fallback tries the models in chain order, one at a
\* time; an attempt that throws or returns an empty result is a failed one;
\* it returns the payload of the first model that does not fail, with that
\* model's name and 1-based position, and tries no model after it.
C11_FirstSuccessWins ==
    /\ TriedInOrder
    /\ \A k \in 1..(Len(execution.invoked) - 1) :
           execution.invoked[k].outcome \in {"throw", "empty", "none"}
    /\ execution.pc = "returned" =>
           LET n == Len(execution.invoked)
           IN /\ n >= 1
              /\ execution.invoked[n].outcome = "ok"
              /\ execution.value =
                     [result |-> RawData,
                      model_used |-> executor.fallback_chain[n],
                      attempts |-> n]
              /\ executor.last_successful_model = executor.fallback_chain[n]

\* C11 witness: the second model answered after the first returned {}.
C11_Witness ==
    /\ execution.pc = "returned"
    /\ execution.value.attempts = 2
    /\ execution.invoked[1].outcome = "empty"
    /\ executor.fallback_chain = <<"A", "B">>

\* C12 (as stated): when both models of the chain [A, B] fail, the error
\* raised by execute_with_fallback names A and B.
C12_ErrorNamesBothModels ==
    (execution.pc = "raised" /\ executor.fallback_chain = <<"A", "B">>) =>
        {"A", "B"} \subseteq execution.error.names

\* C13: when every model of a chain of length n fails, each of the n models
\* was tried exactly once, nothing is returned, the RuntimeError states n
\* and the error of the last attempt, and last_successful_model is what it
\* was before the call.
C13_AllModelsFailed ==
    execution.pc = "raised" =>
        LET n == Len(executor.fallback_chain)
        IN /\ Len(execution.invoked) = n
           /\ TriedInOrder
           /\ \A k \in 1..n : execution.invoked[k].outcome # "ok"
           /\ execution.value = NoValue
           /\ execution.error.type = "RuntimeError"
           /\ execution.error.chain_length = n
           /\ execution.error.last_error = execution.invoked[n].error
           /\ executor.last_successful_model = execution.before

\* C13 witness: a chain of two models fails with two different errors on an
\* executor whose earlier call had succeeded.
C13_Witness ==
    /\ execution.pc = "raised"
    /\ Len(executor.fallback_chain) = 2
    /\ execution.before # None
    /\ execution.invoked[1].error # execution.invoked[2].error

\* C14: a pipeline whose cache lookup hits goes from the lookup straight to
\* its result: success=true, cached=true, data the cached value, and in
\* that step no rate-limiter wait or extractor call is submitted, nothing
\* is validated and nothing is written to the cache.
C14_CacheHitShortCircuits ==
    [][\A i \in DOMAIN pc :
          (pc[i] = "queued" /\ i \in DOMAIN pc' /\ pc'[i] = "done") =>
              /\ result'[i].success
              /\ result'[i].cached
              /\ result'[i].data # None
              /\ result'[i].data =
                     cache_get(urls[i], prompt, LookupModel, SchemaKey)
              /\ result'[i].validation_passed = None
              /\ ext'[i] = "unset"
              /\ threads' = threads
              /\ rate_limiter' = rate_limiter
              /\ cache_store' = cache_store]_vars

\* C14 witness: an item was served from the cache by a processor that
\* rate-limits and validates every extraction.
C14_Witness ==
    /\ Returned
    /\ config.use_rate_limiting
    /\ config.validate_results
    /\ schema_name # None
    /\ \E i \in Items : /\ results[i].cached
                        /\ results[i].data = NormalizedData

\* C15: every started batch comes to its return with every pipeline ended
\* and one BatchResult per item, also when an extractor never returns.
C15_EveryPipelineEnds ==
    (phase = "running") ~>
        (/\ phase = "returned"
         /\ \A i \in Items : pc[i] = "done"
         /\ Len(results) = Len(urls))

\* C15 witness: the batch has returned while the extractor of an item that
\* timed out is still running in its thread.
C15_Witness ==
    /\ Returned
    /\ \E i \in Items : /\ ext[i] = "hang"
                        /\ timed_out[i]
                        /\ Thread(i, "run") \in threads

\* C16: once the deadline of an item has fired, no call is submitted for
\* that item any more (no extractor invocation, no later model of the
\* chain), no pipeline that timed out writes to the cache, and the step in
\* which the deadline fires leaves every sibling pipeline as it was.
C16_TimeoutCancelsOnlyItsItem ==
    [][call' = call =>
         \A i \in Items :
            /\ timed_out[i] =>
                   /\ pc'[i] = "done"
                   /\ result'[i] = TimeoutResult(urls[i], i - 1)
                   /\ \A t \in threads' \ threads : t.index # i
                   /\ cache_store' # cache_store =>
                          \E j \in Items \ {i} :
                              /\ ~timed_out[j]
                              /\ pc[j] = "extracting" /\ pc'[j] = "done"
            /\ (~timed_out[i] /\ timed_out'[i]) =>
                   /\ cache_store' = cache_store
                   /\ threads' = threads
                   /\ \A j \in Items \ {i} :
                          /\ pc'[j] = pc[j]
                          /\ result'[j] = result[j]
                          /\ timed_out'[j] = timed_out[j]]_vars

\* C16 witness: with one slot, the first item timed out in its extractor
\* and the second was then extracted and written to the cache.
C16_Witness ==
    /\ Returned
    /\ config.max_concurrent = 1
    /\ Len(urls) = 2
    /\ timed_out[1] /\ ext[1] = "hang"
    /\ results[2].success /\ ~results[2].cached
    /\ cache_store # <<>>

\* C17 (as stated): any two successive returns of wait() on the shared
\* limiter are at least min_delay_seconds apart, also when the calls
\* overlap.
C17_SpacingEnforced ==
    \A k \in 1..(Len(returns) - 1) :
        returns[k + 1] - returns[k] >= min_delay_seconds

\* the metrics write of item i failed: its pipeline has ended and the table
\* holds no row for it
SinkFailed(i) == pc[i] = "done" /\ Count("metric", i) = 0

\* C18 (as stated): when log_scrape raises for an item, nothing leaves the
\* item's task, its progress callback is still invoked, and the result
\* returned for it is the outcome of its extraction.
C18_MetricsFailureSwallowed ==
    \A i \in DOMAIN pc :
        SinkFailed(i) =>
            /\ raised[i] = None
            /\ Count("progress", i) >= 1
            /\ phase # "raised"
            /\ Returned => results[i] = result[i]

\* an error was raised inside the pipeline of item i
ErrorRaised(i) == raised[i] # None \/ result[i].error # None

\* C19 (as stated): with continue_on_error=true a non-empty batch never
\* raises, and every item in whose pipeline an error was raised has at its
\* index a result with success=false and a non-empty error.
C19_ErrorsBecomeResults ==
    (config.continue_on_error /\ urls # <<>>) =>
        /\ phase # "raised"
        /\ Returned =>
               \A i \in Items :
                   ErrorRaised(i) =>
                       /\ results[i].index = i - 1
                       /\ ~results[i].success
                       /\ results[i].error \notin {None, ""}

\* C20: with continue_on_error=false the first exception that leaves a
\* task is the one process_batch raises: it is set on gather's future when
\* it escapes and never replaced, process_batch cannot return once it is
\* set, and a batch that raised has no result list.
C20_FirstFailureAborts ==
    /\ [](~config.continue_on_error =>
            /\ gather_exception # None => phase # "returned"
            /\ (phase = "raised" /\ urls # <<>>) =>
                   /\ results = <<>>
                   /\ gather_exception # None
                   /\ \E i \in Items : raised[i] = gather_exception
            /\ Returned => \A i \in Items : raised[i] = None)
    /\ [][(~config.continue_on_error /\ call' = call) =>
             /\ gather_exception # None =>
                    gather_exception' = gather_exception
             /\ \A i \in DOMAIN raised :
                    (/\ raised'[i] # None
                     /\ \A j \in DOMAIN raised : raised[j] = None) =>
                        gather_exception' = raised'[i]]_vars

\* C20 witness: two tasks failed with different errors before process_batch
\* raised, and it raised the error of the one that failed first, the second
\* item's.
C20_Witness ==
    /\ phase = "raised"
    /\ ~config.continue_on_error
    /\ Len(urls) = 2
    /\ raised[1] # None /\ raised[2] # None
    /\ raised[1] # raised[2]
    /\ gather_exception = raised[2]

\* C21 (as stated): with use_fallback=true, every lookup a miss and the
\* primary model's extractor answering every item, every result has
\* success=true, the primary model's name and fallback_attempts=1, and the
\* cache in use holds an entry for every item.
C21_PrimaryModelAnswers ==
    (/\ Returned /\ call = 1 /\ config.use_fallback
     /\ \A i \in Items : /\ ext[i] = "ok"
                         /\ ~timed_out[i]
                         /\ ~results[i].cached) =>
        \A i \in Items :
            /\ results[i].success
            /\ results[i].model_used = fallback_chain[1]
            /\ results[i].fallback_attempts = 1
            /\ (config.use_cache /\ cache_enabled) =>
                   make_key(urls[i], prompt, fallback_chain[1], SchemaKey)
                       \in DOMAIN cache_store

\* C22: process_batch called with an empty urls list raises and does
\* nothing else: it never returns a list, no pipeline exists, no call is
\* handed to a thread, the cache, the rate limiter and the semaphore are as
\* constructed, and there is no metrics row and no progress callback.
C22_EmptyBatchRaises ==
    urls = <<>> =>
        /\ phase \in {"idle", "raised"}
        /\ call >= 1 => phase = "raised"
        /\ pc = <<>> /\ result = <<>> /\ ext = <<>>
        /\ threads = {}
        /\ cache_store = <<>>
        /\ rate_limiter = [request_count |-> 0, last_request_time |-> None]
        /\ semaphore = config.max_concurrent
        /\ log = <<>>
        /\ results = <<>>

\* C22 witness: the call with no urls has raised on a processor that uses
\* the cache and the rate limiter.
C22_Witness ==
    /\ urls = <<>>
    /\ phase = "raised"
    /\ call = 1
    /\ config.use_cache /\ cache_enabled
    /\ config.use_rate_limiting

\* what the extractor returned for item i
Payload(i) == IF ext[i] = "ok" THEN RawData ELSE None

\* the pipeline of item i ran its extraction to the end of Step 3
ExtractionReturned(i) ==
    /\ pc[i] = "done"
    /\ ~config.use_fallback
    /\ ext[i] \in {"ok", "none"}
    /\ ~timed_out[i]

\* C23: with a schema_name and validate_results=true every extraction that
\* returned is validated; a payload the schema rejects leaves the item
\* successful with validation_passed=false and the raw payload as data, a
\* payload it accepts is replaced by the normalized one with
\* validation_passed=true; without a schema_name or with
\* validate_results=false nothing is validated.
C23_ValidationNeverFailsItem ==
    \A i \in DOMAIN pc :
        pc[i] = "done" =>
            LET r == result[i]
                checked == schema_name # None /\ config.validate_results
            IN /\ r.validation_passed = "False" =>
                      /\ r.success /\ r.error = None
                      /\ r.data = Payload(i)
               /\ r.validation_passed = "True" =>
                      /\ r.success /\ r.error = None
                      /\ r.data = NormalizedData
               /\ (checked /\ ExtractionReturned(i)) =>
                      r.validation_passed # None
               /\ ~checked => r.validation_passed = None

\* C23 witness: a returned batch in which the schema rejected the payload
\* of one item and accepted that of the other.
C23_Witness ==
    /\ Returned
    /\ Len(urls) = 2
    /\ \E i, j \in Items :
          /\ results[i].validation_passed = "False"
          /\ results[i].success
          /\ results[i].data = RawData
          /\ results[j].validation_passed = "True"
          /\ results[j].data = NormalizedData

\* C24: no call on the cache raises; a cache constructed while the server
\* is unreachable (or with enabled=False) reports enabled=false, and then
\* every get gives None, every set gives False and nothing reaches the
\* server; on an enabled cache a get or set during which the server fails
\* gives None / False.
C24_CacheFailsClosed ==
    /\ \A k \in 1..Len(cache_calls) :
           cache_calls[k].end.outcome = "returned"
    /\ cache_calls # <<>> =>
           /\ cache_calls[1].store_fails => ~cache.enabled
           /\ cache.enabled =
                  (cache_calls[1].enabled /\ ~cache_calls[1].store_fails)
    /\ ~cache.enabled => redis = <<>>
    /\ \A k \in 2..Len(cache_calls) :
           LET c == cache_calls[k]
           IN (~cache.enabled \/ c.store_fails) =>
                  IF c.op = "get" THEN c.end.value = None
                                  ELSE c.end.value = FALSE

\* C24 witness: on a cache that was constructed with the server up, a set
\* succeeded and a later get of the same key, during which the server
\* failed, gave None.
C24_Witness ==
    /\ Len(cache_calls) = 3
    /\ cache.enabled
    /\ cache_calls[2].op = "set" /\ cache_calls[2].end.value = TRUE
    /\ cache_calls[3].op = "get" /\ cache_calls[3].store_fails
    /\ cache_calls[3].key = cache_calls[2].key
    /\ cache_calls[3].key \in DOMAIN redis
    /\ cache_calls[3].end = Returns(None)

\* two calls carry the same keyword parameters, in whatever order
SameParams(x, y) ==
    {x[i] : i \in 1..Len(x)} = {y[i] : i \in 1..Len(y)}

\* C25: any two calls get the same cache key exactly when they have the
\* same url, the same prompt and the same keyword parameters with the same
\* values, in whatever order the parameters were written.
C25_KeyDeterministic ==
    \A j, k \in 2..Len(cache_calls) :
        LET a == cache_calls[j]
            b == cache_calls[k]
        IN (a.key = b.key) <=>
               /\ a.url = b.url
               /\ a.prompt = b.prompt
               /\ SameParams(a.kwargs, b.kwargs)

\* C25 witness: a value stored under model=, schema= was found by a get
\* that wrote schema=, model=.
C25_Witness ==
    /\ Len(cache_calls) = 3
    /\ cache_calls[2].op = "set"
    /\ cache_calls[3].op = "get"
    /\ Len(cache_calls[2].kwargs) = 2
    /\ cache_calls[3].kwargs # cache_calls[2].kwargs
    /\ cache_calls[3].key = cache_calls[2].key
    /\ cache_calls[3].end = Returns(RawData)

\* the number of the wait() call thread w is making or has just made
CallNumber(w) ==
    IF waiters[w].pc = "returned" THEN Len(returns) ELSE Len(returns) + 1

total_requests == limiter.request_count

\* C27 (as stated): whenever no wait() call is under way, also after calls
\* that overlapped, total_requests is the number of wait() calls that have
\* returned.
C27_CountsEveryWait ==
    (\A w \in DOMAIN waiters : waiters[w].pc \in {"idle", "returned"}) =>
        total_requests = Len(returns)

\* C28 (as stated): the response of the batch endpoint has success=true
\* exactly when at least one item of the batch succeeded, it carries one
\* result per url, and when every item failed it has success=false and a
\* batch-level error.
C28_PartialSuccessIsSuccess ==
    response # NoResponse =>
        /\ response.success <=> \E i \in Items : results[i].success
        /\ Len(response.results) = Len(urls)
        /\ (\A i \in Items : ~results[i].success) =>
               ~response.success /\ response.error # None

\* C29 (as stated): get_stats over a window without any row returns
\* total_scrapes, cache_hits and errors at 0, both rates at 0, and the
\* average execution time as None.
C29_EmptyWindowStats ==
    (stats # NoStats /\ stats.total_scrapes = 0) =>
        /\ stats.cache_hits = <<0>>
        /\ stats.errors = <<0>>
        /\ stats.cache_hit_rate = 0
        /\ stats.error_rate = 0
        /\ stats.avg_time = NULL

\* the outcomes of an attempt after which another attempt is due: an
\* exception that is a ConnectionError, a TimeoutError or a ValueError, or
\* an empty result
Transient == {"ConnectionError", "ConnectionRefusedError", "TimeoutError",
              "ValueError", "empty", "none"}

\* C30: scrape_with_retry calls the function at most 3 times; every attempt
\* before the last one ended with a ConnectionError, TimeoutError,
\* ValueError or empty result; it returns the payload of the first attempt
\* that gives one; it raises the exception of the last attempt, which is
\* the third one unless the exception is of another type, and an exception
\* of another type at the first attempt ends the call after that attempt.
C30_RetryAtMostThreeTimes ==
    LET n == Len(retrying.outcomes)
    IN /\ n <= 3
       /\ \A k \in 1..(n - 1) : retrying.outcomes[k] \in Transient
       /\ retrying.pc = "running" =>
              /\ n < 3
              /\ retrying.attempt_number = n + 1
              /\ \A k \in 1..n : retrying.outcomes[k] \in Transient
       /\ retrying.pc = "returned" =>
              /\ n >= 1
              /\ retrying.outcomes[n] = "ok"
              /\ retrying.value = RawData
       /\ retrying.pc = "raised" =>
              /\ n >= 1
              /\ retrying.outcomes[n] # "ok"
              /\ retrying.error.attempt = n
              /\ retrying.error.type =
                     IF retrying.outcomes[n] \in {"empty", "none"}
                     THEN "ValueError" ELSE retrying.outcomes[n]
              /\ retrying.outcomes[n] \in Transient => n = 3
              /\ retrying.outcomes[1] \notin Transient => n = 1

\* C30 witness: three attempts failed, with a ConnectionError, an empty
\* result and a TimeoutError, and the TimeoutError was raised.
C30_Witness ==
    /\ retrying.pc = "raised"
    /\ retrying.outcomes = <<"ConnectionError", "empty", "TimeoutError">>
    /\ retrying.error = [type |-> "TimeoutError", attempt |-> 3]

\* the entries of the cache that a step has added or replaced
Written ==
    {k \in DOMAIN cache_store' :
        k \notin DOMAIN cache_store \/ cache_store'[k] # cache_store[k]}

\* C31: a step of a batch adds or replaces a cache entry only when it ends
\* the pipeline of an item that was awaiting its extraction, with
\* success=true, not served from the cache, not timed out and with a
\* non-empty payload; the entry is the one of that item's url and holds
\* that payload.  Pipelines that fail, time out or hit the cache leave the
\* cache as it is.
C31_OnlySuccessfulExtractionWrites ==
    [][\A k \in Written :
          \E i \in Items :
             /\ config.use_cache
             /\ pc[i] = "extracting" /\ pc'[i] = "done"
             /\ result'[i].success
             /\ ~result'[i].cached
             /\ ~timed_out'[i]
             /\ result'[i].error = None
             /\ Truthy(result'[i].data)
             /\ k.url = urls[i]
             /\ json_loads(cache_store'[k]) = result'[i].data]_vars

\* C31 witness: a batch of two urls has returned; the first item succeeded
\* through extraction and its entry is in the cache, the second one timed
\* out and the cache holds nothing for its url.
C31_Witness ==
    /\ phase = "returned"
    /\ call = 1
    /\ urls = <<"u1", "u2">>
    /\ results[1].success /\ ~results[1].cached
    /\ results[2].error = TimeoutMessage
    /\ \E k \in DOMAIN cache_store :
          k.url = "u1" /\ json_loads(cache_store[k]) = results[1].data
    /\ \A k \in DOMAIN cache_store : k.url # "u2"

\* C32: every progress callback of an item comes after a metrics record of
\* that item in the same call of process_batch.
C32_MetricBeforeProgress ==
    \A p \in 1..Len(log) :
        log[p].kind = "progress" =>
            \E m \in 1..(p - 1) :
                log[m].kind = "metric" /\ log[m].index = log[p].index

\* C33: the deadline of a task runs from the moment it got its slot and
\* covers the limiter wait and the extraction together: a task that holds
\* a slot is never seen later than timeout_per_url after the acquisition,
\* a task that ended on its own did so within timeout_per_url of the
\* acquisition, and a task that timed out did so exactly timeout_per_url
\* after the acquisition, however long it had queued for the slot.
C33_DeadlineFromAcquisition ==
    \A i \in DOMAIN timed.tasks :
        LET t == timed.tasks[i]
        IN /\ InWaitFor(t) =>
                  timed.now <= t.acquired[1] + timeout_per_url
           /\ t.pc = "done" /\ t.outcome # "timeout" =>
                  /\ t.acquired[1] <= t.limited[1]
                  /\ t.limited[1] <= t.ended[1]
                  /\ t.ended[1] - t.acquired[1] <= timeout_per_url
           /\ t.pc = "done" /\ t.outcome = "timeout" =>
                  t.ended[1] - t.acquired[1] = timeout_per_url

\* C33 witness: with one slot, the first task timed out although its
\* extraction alone ran for less than timeout_per_url (the limiter wait
\* took the rest), and the second task, which had queued for the slot for
\* timeout_per_url, then succeeded.
C33_Witness ==
    /\ Len(timed.tasks) = 2
    /\ timed.tasks[1].outcome = "timeout"
    /\ timed.tasks[1].limited # <<>>
    /\ timed.tasks[1].limited[1] > timed.tasks[1].acquired[1]
    /\ timed.tasks[1].ended[1] - timed.tasks[1].limited[1] < timeout_per_url
    /\ timed.tasks[2].outcome = "success"
    /\ timed.tasks[2].acquired[1] >= timeout_per_url
    /\ timed.tasks[2].ended[1] > timeout_per_url

\* the position of a stage in the order of the pipeline
StageRank(stage) ==
    CASE stage = "cache_lookup" -> 1
      [] stage = "rate_limiter_wait" -> 2
      [] stage = "extractor" -> 3
      [] stage = "validation" -> 4
      [] stage = "cache_write" -> 5
      [] stage = "metrics_log" -> 6
      [] stage = "progress" -> 7

\* C34: on a cache miss the stages a pipeline has passed are in the order
\* cache lookup, rate-limiter wait, extractor, validation, cache write,
\* metrics log, progress callback, none of them twice; after an error or a
\* timeout at a stage, no stage between that one and the metrics log is
\* passed; the pipeline ends with the metrics log and the callback, failed
\* exactly when a stage had an error or timed out.
C34_StagesInOrder ==
    LET s == pipeline.stages
    IN ~pipeline.cached =>
          /\ \A k \in 1..(Len(s) - 1) : StageRank(s[k]) < StageRank(s[k + 1])
          /\ pipeline.failed_at # None =>
                /\ \E k \in 1..Len(s) : s[k] = pipeline.failed_at
                /\ \A k \in 1..Len(s) :
                      \/ StageRank(s[k]) <= StageRank(pipeline.failed_at)
                      \/ StageRank(s[k]) >= StageRank("metrics_log")
          /\ pipeline.pc = "done" =>
                /\ Len(s) >= 2
                /\ s[Len(s) - 1] = "metrics_log"
                /\ s[Len(s)] = "progress"
                /\ pipeline.failed_at # None =>
                      ~pipeline.success /\ pipeline.error # None
                /\ pipeline.failed_at = None =>
                      /\ pipeline.success /\ pipeline.error = None
                      /\ \E k \in 1..Len(s) : s[k] = "extractor"

\* C34 witness: a pipeline that missed the cache, waited for the limiter
\* and failed in the extractor has ended with the metrics log and the
\* callback, without validation or cache write.
C34_Witness ==
    /\ pipeline.pc = "done"
    /\ pipeline.stages = <<"cache_lookup", "rate_limiter_wait", "extractor",
                           "metrics_log", "progress">>
    /\ pipeline.failed_at = "extractor"
    /\ pipeline.error = ExtractorMessage
    /\ ~pipeline.success

\* C35: when process_batch has returned, the record of an item is counted
\* as an error by get_stats exactly when the item's BatchResult has
\* success=false, so that the errors count of the batch's records is the
\* number of its failed items (0 when every item succeeded).
C35_ErrorsCountFailedItems ==
    phase = "returned" /\ urls # <<>> =>
        LET rows == BatchRows
            failed == {i \in Items : ~results[i].success}
        IN /\ \A k \in 1..Len(rows) :
                  LET e == SelectSeq(log, LAMBDA x : x.kind = "metric")[k]
                  IN rows[k].error # NULL <=> (e.index + 1) \in failed
           /\ get_stats(rows, clock, 1).errors = <<Cardinality(failed)>>

\* C36: during and after a batch the processor's graph_config has the
\* contents it had at construction, its loader_kwargs included, and the
\* configuration of every pipeline that has applied stealth headers shows
\* the headers chosen for that pipeline.
C36_GraphConfigUnchanged ==
    /\ Deep(stealth.graph_config, stealth.heap) = stealth.original
    /\ \A i \in DOMAIN stealth.pc :
          stealth.chosen[i] # <<>> =>
              Deep(stealth.scraping_config[i][1], stealth.heap)[1].headers
                  = stealth.chosen[i]

\* C37: a pipeline of a processor with use_cache=false makes no cache
\* lookup and no cache write and is never served from the cache, whatever
\* the cache holds; a pipeline of a processor with use_rate_limiting=false
\* never calls RateLimiter.wait, and the limiter's request_count and
\* last_request_time are as they were.
C37_DisabledPolicyUntouched ==
    /\ ~pipeline.settings.use_cache =>
          /\ \A k \in 1..Len(pipeline.stages) :
                pipeline.stages[k] \notin {"cache_lookup", "cache_write"}
          /\ ~pipeline.cached
    /\ ~pipeline.settings.use_rate_limiting =>
          /\ \A k \in 1..Len(pipeline.stages) :
                pipeline.stages[k] # "rate_limiter_wait"
          /\ pipeline.rate_limiter = [request_count |-> 0,
                                      last_request_time |-> None]

\* C37 witness: with both policies disabled, a connected cache that holds
\* an entry for the item and an extractor that returned a payload, the
\* pipeline has ended after the extractor, the metrics log and the
\* callback only.
C37_Witness ==
    /\ pipeline.pc = "done"
    /\ ~pipeline.settings.use_cache
    /\ pipeline.settings.stored
    /\ ~pipeline.settings.use_rate_limiting
    /\ pipeline.success
    /\ pipeline.data = RawData
    /\ pipeline.stages = <<"extractor", "metrics_log", "progress">>

\* C38: whenever process_batch has returned or raised, the semaphore has
\* max_concurrent free slots again.
C38_SlotsReleasedAtEnd ==
    phase \in {"returned", "raised"} => semaphore = config.max_concurrent

\* C39: last_successful_model is None before the first call and as long as
\* no call has succeeded; it changes only in the step that ends a call
\* with a success, and then to the model name that call returns; while a
\* call tries its models, and after a call in which every model failed, it
\* has the value it had when the call began.
C39_LastSuccessfulModelTracksSuccess ==
    /\ [](/\ execution.calls = 0 => executor.last_successful_model = None
          /\ execution.calls = 1 => execution.before = None
          /\ execution.pc = "returned" =>
                executor.last_successful_model = execution.value.model_used
          /\ execution.pc \in {"loop", "raised"} =>
                executor.last_successful_model = execution.before)
    /\ [][executor'.last_successful_model # executor.last_successful_model
             => /\ execution.pc = "loop"
                /\ execution'.pc = "returned"
                /\ executor'.last_successful_model =
                       execution'.value.model_used]_vars

\* C39 witness: the first call succeeded, the second call tried every
\* model in vain and raised, and last_successful_model still names the
\* model of the first call.
C39_Witness ==
    /\ execution.calls = 2
    /\ execution.pc = "raised"
    /\ Len(execution.invoked) = Len(executor.fallback_chain)
    /\ executor.last_successful_model # None
    /\ executor.last_successful_model = execution.before

====
